---- MODULE Spec2Model ----
(***************************************************************************)
(* Verification model of the x402 Exact-EVM facilitator scheme (verify and  *)
(* settle, V2 and V1) and of the Hono resource middleware.                  *)
(*                                                                          *)
(* An async function is modelled at the granularity of its awaits: every    *)
(* chain / paymaster call is a point where the environment answers.         *)
(***************************************************************************)
EXTENDS Integers, Sequences, FiniteSets, TLC

VARIABLES
    clock,   \* Math.floor(Date.now() / 1000) as the facilitator reads it
    vq,      \* the verify call under way: version, payload, requirements
    venv,    \* answers the chain has given to this verify call so far
    vres,    \* what the verify call returned (kind "none" while it runs)
    sq,      \* settle: the facilitator's version and config, payload, requirements
    chain,   \* settle: the authorization's nonce on chain, and the transactions
    sc,      \* settle: the state of every settle call
    mreq,    \* middleware: the HTTP request
    mw,      \* middleware: where the request stands, what it was answered
    zchain,  \* submit: the facilitator signer's transaction count on chain
    zs,      \* submit: the state of every submission under way
    probes,  \* probe: the token probed and the EIP-3009 probes made of it
    pf,      \* pure functions: the function called, its argument, its result
    cl,      \* client: the createPaymentPayload call under way
    tk,      \* TokenSymbolUtil: the chain mappings, the cache, the last lookup
    zv       \* ZeroGasTool: its pendingNonce, the validateGaslessWithdraw2 call

verifyVars == <<vq, venv, vres>>
settleVars == <<sq, chain, sc>>
mwVars == <<mreq, mw>>
submitVars == <<zchain, zs>>
probeVars == <<probes>>
pureVars == <<pf>>
clientVars == <<cl>>
tokenVars == <<tk>>
validateVars == <<zv>>
vars == <<clock, vq, venv, vres, sq, chain, sc, mreq, mw, zchain, zs, probes, pf,
          cl, tk, zv>>

(***************************** bounds **************************************)
MaxClock == 1
MaxAmount == 1

(************************* program constants *******************************)
\* "with 6 second buffer for block time": validBefore < now + 6 is rejected
ValidBeforeBuffer == 6
\* 65 bytes = 130 hex chars for an EOA signature
EoaSigHexLen == 130

(***************************** values **************************************)
Versions == {"V2", "V1"}

\* An address is its 20 bytes (id) and the letter case it is written in.
Addr(id, form) == [id |-> id, form |-> form]
PayToId == "0x2ec8a"
OtherId == "0x34b7f"

\* viem getAddress: the checksummed spelling of the same 20 bytes
getAddress(a) == [id |-> a.id, form |-> "checksum"]

\* the six 4-byte selectors the facilitator contract reverts with
Selectors == {"0x13be252b", "0xccea9e6f", "0xdf8e4372", "0x0f05f5bf",
              "0x1f6d5aef", "0x8baa579f"}

\* estimateGas: it succeeds, throws an Error whose message holds one of the
\* selectors, throws an Error holding none, or throws a value that is no Error
EstOutcomes == {"ok"} \cup Selectors \cup {"otherError", "nonError"}

\* signature shapes: 65-byte ECDSA; longer blobs parsed by parseErc6492Signature
\* into a factory address and calldata (nonzero factory / zero factory), or a
\* longer blob that is no EIP-6492 wrapper
SigKinds == {"eoa", "erc6492", "erc6492zero", "long"}

SigHexLen(sig) == IF sig = "eoa" THEN EoaSigHexLen ELSE EoaSigHexLen + 2

\* parseErc6492Signature(sig): does it carry address && data && address # 0
HasDeploymentInfo(sig) == sig = "erc6492"

UnsetEnv == [probe |-> "unset", est |-> "unset", allowance |-> "unset",
             code |-> "unset", balance |-> [st |-> "unset", val |-> 0]]

ChainCalls == {"probe", "est", "allowance", "code", "balance"}

\* the answers the chain can give to one call
Answers(call) ==
    CASE call = "probe"     -> {"true", "false"}
      [] call = "est"       -> EstOutcomes
      [] call = "allowance" -> {"ok", "fail"}
      [] call = "code"      -> {"none", "deployed", "fail"}
      [] call = "balance"   -> {[st |-> "fail", val |-> 0]} \cup
                               {[st |-> "ok", val |-> b] : b \in 0..MaxAmount}

(************************* verify: results *********************************)
Await(call) == [kind |-> "await", call |-> call, isValid |-> FALSE,
                invalidReason |-> "", type |-> "none"]
Invalid(reason, type) == [kind |-> "return", call |-> "", isValid |-> FALSE,
                          invalidReason |-> reason, type |-> type]
Valid(type) == [kind |-> "return", call |-> "", isValid |-> TRUE,
                invalidReason |-> "undefined", type |-> type]
Thrown == [kind |-> "throw", call |-> "", isValid |-> FALSE,
           invalidReason |-> "", type |-> "none"]
NoResult == [kind |-> "none", call |-> "", isValid |-> FALSE,
             invalidReason |-> "", type |-> "none"]

\* the message verify builds in its estimateGas catch block
EstErrorMessage(est) ==
    CASE est = "0x13be252b" -> "Insufficient token allowance. Please approve the facilitator contract to spend your tokens before making the payment."
      [] est = "0xccea9e6f" -> "Invalid operator. The caller is not authorized to perform this operation."
      [] est = "0xdf8e4372" -> "Authorization not yet valid. The payment authorization is not yet active."
      [] est = "0x0f05f5bf" -> "Authorization expired. The payment authorization has expired."
      [] est = "0x1f6d5aef" -> "Nonce already used. This authorization has already been used."
      [] est = "0x8baa579f" -> "Invalid signature. The payment authorization signature is invalid."
      [] OTHER              -> "Failed to estimate gas: execution reverted"

\* Math.round(x / 10) for x >= 0 (half rounds up)
RoundTenths(x) == (x + 5) \div 10

\* V1: maxAmountRequired, derived from amountRequired * 10 ** tokenDecimals
\* when it is null (amountRequired carried in tenths, tokenDecimals 0 or 1)
MaxAmountRequiredV1(r) ==
    IF r.hasAmount THEN r.amount
    ELSE IF r.tokenDecimals = 0 THEN RoundTenths(r.amountTenths)
         ELSE r.amountTenths

\* the amount verify compares balance and value with
RequiredAmount(ver, r) == IF ver = "V1" THEN MaxAmountRequiredV1(r) ELSE r.amount

\* V1: payloadV1.network = payloadV1.networkId when it is null;
\* V2 reads payload.accepted.network
PayloadNetwork(ver, p) ==
    IF ver = "V1" /\ p.network = "null" THEN p.networkId ELSE p.network

\* the type field of the results built after the network check (V1 only)
LateType(ver) == IF ver = "V1" THEN "payload" ELSE "none"

(************************* verify: the checks ******************************)
\* payload.accepted.scheme !== "exact" || requirements.scheme !== "exact"
SchemeUnsupported(p, r) == p.scheme # "exact" \/ r.scheme # "exact"

\* V2 only: !requirements.extra?.name || !requirements.extra?.version
DomainMissing(ver, r) == ver = "V2" /\ ~r.hasDomain

\* payload network !== requirements.network
NetworkMismatch(ver, p, r) == PayloadNetwork(ver, p) # r.network

\* getAddress(authorization.to) !== getAddress(requirements.payTo)
RecipientMismatch(p, r) == getAddress(p.to) # getAddress(r.payTo)

\* BigInt(validAfter) > BigInt(now), off by one
ValidAfterOffByOne(p, now) == p.validAfter > now + 1

\* BigInt(authorization.validAfter) > BigInt(now)
ValidAfterInFuture(p, now) == p.validAfter > now

\* BigInt(validBefore) <= BigInt(now + 6): the comparison made inclusive
ValidBeforeInclusive(p, now) == p.validBefore <= now + ValidBeforeBuffer

\* BigInt(authorization.validBefore) < BigInt(now + 6)
ValidBeforeTooEarly(p, now) == p.validBefore < now + ValidBeforeBuffer

\* the balanceOf read answered, and BigInt(balance) < BigInt(required amount)
BalanceTooLow(ver, r, e) ==
    e.balance.st = "ok" /\ e.balance.val < RequiredAmount(ver, r)

\* BigInt(authorization.value) < BigInt(required amount)
ValueTooLow(ver, p, r) == p.value < RequiredAmount(ver, r)

\* the field checks with the validBefore check made before the recipient check
FieldChecksReordered(ver, p, r, e, now) ==
    IF ValidBeforeTooEarly(p, now)
    THEN Invalid("invalid_exact_evm_payload_authorization_valid_before", LateType(ver))
    ELSE IF RecipientMismatch(p, r)
    THEN Invalid("invalid_exact_evm_payload_recipient_mismatch", LateType(ver))
    ELSE IF ValidAfterInFuture(p, now)
    THEN Invalid("invalid_exact_evm_payload_authorization_valid_after", LateType(ver))
    ELSE IF e.balance.st = "unset" THEN Await("balance")
    ELSE IF BalanceTooLow(ver, r, e)
    THEN Invalid("insufficient_funds", LateType(ver))
    ELSE IF ValueTooLow(ver, p, r)
    THEN Invalid("invalid_exact_evm_payload_authorization_value", LateType(ver))
    ELSE Valid(LateType(ver))

\* field-level checks, from the recipient check to the end of verify; a
\* failing balanceOf read is caught and the checks go on
FieldChecks(ver, p, r, e, now) ==
    IF RecipientMismatch(p, r)
    THEN Invalid("invalid_exact_evm_payload_recipient_mismatch", LateType(ver))
    ELSE IF ValidBeforeTooEarly(p, now)
    THEN Invalid("invalid_exact_evm_payload_authorization_valid_before", LateType(ver))
    ELSE IF ValidAfterInFuture(p, now)
    THEN Invalid("invalid_exact_evm_payload_authorization_valid_after", LateType(ver))
    ELSE IF e.balance.st = "unset" THEN Await("balance")
    ELSE IF BalanceTooLow(ver, r, e)
    THEN Invalid("insufficient_funds", LateType(ver))
    ELSE IF ValueTooLow(ver, p, r)
    THEN Invalid("invalid_exact_evm_payload_authorization_value", LateType(ver))
    ELSE Valid(LateType(ver))

\* the catch block of estimateGas for a thrown value that is no Error:
\* smart-wallet / EIP-6492 analysis (the getCode read is not guarded)
SmartWalletAnalysis(ver, p, r, e, now) ==
    IF SigHexLen(p.sig) > EoaSigHexLen
    THEN IF e.code = "unset" THEN Await("code")
         ELSE IF e.code = "fail" THEN Thrown
         ELSE IF e.code = "none"
         THEN IF ~HasDeploymentInfo(p.sig)
              THEN Invalid("invalid_exact_evm_payload_undeployed_smart_wallet", LateType(ver))
              ELSE FieldChecks(ver, p, r, e, now)
         ELSE Invalid("invalid_exact_evm_payload_signature", LateType(ver))
    ELSE Invalid("invalid_exact_evm_payload_signature", LateType(ver))

\* the catch block of estimateGas: an Error returns its message as the
\* invalidReason (after the allowance read for 0x13be252b, which is not
\* guarded); any other thrown value goes to the smart-wallet analysis
EstimateGasCatch(ver, p, r, e, now) ==
    IF e.est # "nonError"
    THEN IF e.est = "0x13be252b"
         THEN IF e.allowance = "unset" THEN Await("allowance")
              ELSE IF e.allowance = "fail" THEN Thrown
              ELSE Invalid(EstErrorMessage(e.est), LateType(ver))
         ELSE Invalid(EstErrorMessage(e.est), LateType(ver))
    ELSE SmartWalletAnalysis(ver, p, r, e, now)

\* verify(payload, requirements) run against the answers e the chain has given
\* so far: the result, or the chain call it is waiting on
verify(ver, p, r, e, now) ==
    IF SchemeUnsupported(p, r)
    THEN Invalid("unsupported_scheme", "none")
    ELSE IF DomainMissing(ver, r)
    THEN Invalid("missing_eip712_domain", "none")
    ELSE IF NetworkMismatch(ver, p, r)
    THEN Invalid("network_mismatch", "none")
    ELSE IF e.probe = "unset" THEN Await("probe")
    ELSE IF e.est = "unset" THEN Await("est")
    ELSE IF e.est # "ok" THEN EstimateGasCatch(ver, p, r, e, now)
    ELSE FieldChecks(ver, p, r, e, now)

(************************* verify: inputs **********************************)
Payloads(now, amount) ==
    [scheme : {"exact", "other"},
     network : {"eip155:56", "56", "null"},
     networkId : {"56"},
     to : {Addr(PayToId, "lower"), Addr(PayToId, "checksum"), Addr(OtherId, "checksum")},
     value : {amount - 1, amount, amount + 1},
     validAfter : {now, now + 1},
     validBefore : {now - 1, now + ValidBeforeBuffer - 1, now + ValidBeforeBuffer},
     sig : SigKinds]

RequirementsV2 ==
    [scheme : {"exact", "other"}, network : {"eip155:56"},
     payTo : {Addr(PayToId, "lower")}, hasDomain : BOOLEAN,
     hasAmount : {TRUE}, amount : 1..MaxAmount,
     amountTenths : {0}, tokenDecimals : {0}]

RequirementsV1 ==
    [scheme : {"exact", "other"}, network : {"eip155:56", "56"},
     payTo : {Addr(PayToId, "lower")}, hasDomain : {FALSE},
     hasAmount : {TRUE}, amount : 1..MaxAmount,
     amountTenths : {0}, tokenDecimals : {0}]
    \cup
    [scheme : {"exact"}, network : {"56"},
     payTo : {Addr(PayToId, "lower")}, hasDomain : {FALSE},
     hasAmount : {FALSE}, amount : {0},
     amountTenths : {10 * a - 5 : a \in 1..MaxAmount}, tokenDecimals : {0, 1}]

VerifyInputs(now) ==
    {[ver |-> "V2", p |-> p, r |-> r] :
        <<p, r>> \in UNION {Payloads(now, r0.amount) \X {r0} : r0 \in RequirementsV2}}
    \cup
    {[ver |-> "V1", p |-> p, r |-> r] :
        <<p, r>> \in UNION {Payloads(now, MaxAmountRequiredV1(r0)) \X {r0} : r0 \in RequirementsV1}}


(***************************************************************************)
(* settle: values                                                             *)
(***************************************************************************)
\* the settle calls in flight; they carry the same authorization
Calls == {"s1", "s2"}

\* the transactions a settle call can broadcast
TxKinds == {"deploy", "sponsored", "direct"}
Tx(i, k) == <<i, k>>
TxIds == Calls \X TxKinds
NoTx == <<>>

\* thrown errors: the selector the message holds ("none" if it holds none),
\* whether it is viem's "Timed out while waiting for transaction with hash",
\* and the hash such a message quotes
Err(sel, timedOut, hash) == [sel |-> sel, timedOut |-> timedOut, hash |-> hash]
NoErr == Err("none", FALSE, NoTx)
\* what sendTransaction can throw: a revert of its gas estimation (of which
\* nonce-used and insufficient-allowance stand for the six), a transport error
SendErrors == {Err(x, FALSE, NoTx) : x \in {"0x1f6d5aef", "0x13be252b", "none"}}
\* what waitForTransactionReceipt(hash) can throw
WaitErrors(hash) == {Err("none", TRUE, hash), Err("none", FALSE, NoTx)}

NoSettleResult == [kind |-> "none", success |-> FALSE, errorReason |-> "",
                   transaction |-> NoTx]
SettleResult(success, reason, tx) ==
    [kind |-> "return", success |-> success, errorReason |-> reason,
     transaction |-> tx]
SettleThrown == [kind |-> "throw", success |-> FALSE, errorReason |-> "",
                 transaction |-> NoTx]

\* okReceipts: the hashes this call saw a receipt with status "success" for;
\* directReceipt: the status of the receipt Stage C read ("none": none read);
\* startedUsed: the authorization was consumed before the call began;
\* caught: the error the outer catch block caught (NoErr: none, or the V1
\* "Settlement transaction was not created" error);
\* scan: the scan-log POST of this call ("none": not issued, "posting": in
\* flight, "ok" / "failed": how it ended)
IdleCall == [pc |-> "idle", venv |-> UnsetEnv, tx |-> NoTx, next |-> TRUE,
             res |-> NoSettleResult, okReceipts |-> {}, startedUsed |-> FALSE,
             directReceipt |-> "none", caught |-> NoErr, scan |-> "none"]

SettleIdle ==
    /\ sq = [ver |-> "V2", deploy |-> FALSE, p |-> <<>>, r |-> <<>>]
    /\ chain = [used |-> FALSE, transfers |-> 0, deployed |-> FALSE,
                txs |-> [t \in TxIds |-> "none"]]
    /\ sc = [i \in Calls |-> IdleCall]


(***************************************************************************)
(* paymentMiddleware: values                                                *)
(***************************************************************************)
\* a payment requirement of a route, as far as the middleware reads it
\* (resource "": none configured; payToAddress as the route config spells it)
RouteRequirement(networkId) ==
    [scheme |-> "exact", namespace |-> "evm", networkId |-> networkId,
     resource |-> "", payToAddress |-> Addr(PayToId, "lower")]

\* the routes the server protects: "/weather" takes a payment on either of two
\* networks, "/report" on one and names its resource, "/free" is configured
\* with no requirement
Routes ==
    [path \in {"/weather", "/report", "/free"} |->
        CASE path = "/weather" ->
               <<RouteRequirement("56"), RouteRequirement("8453")>>
          [] path = "/report" ->
               <<[RouteRequirement("56") EXCEPT !.resource = "https://api/report"]>>
          [] OTHER -> <<>>]

\* const x402Version = 1: the protocol version of the middleware
x402Version == 1

\* the X-PAYMENT header: absent, not base64 JSON ("garbage"), or base64 JSON
\* with or without a namespace field; schemaOk: decodePaymentPayload accepts
\* it; x402Version: the version the client wrote into it
NoHeader == [kind |-> "absent", namespace |-> "absent", schemaOk |-> FALSE,
             scheme |-> "", networkId |-> "", x402Version |-> 0]
GarbageHeader == [kind |-> "garbage", namespace |-> "absent", schemaOk |-> FALSE,
                  scheme |-> "", networkId |-> "", x402Version |-> 0]
PaymentHeaders ==
    {NoHeader, GarbageHeader} \cup
    [kind : {"json"}, namespace : {"absent", "evm", "solana"}, schemaOk : BOOLEAN,
     scheme : {"exact", "other"}, networkId : {"56", "8453", "1"},
     x402Version : {x402Version, x402Version + 1}]

\* c.req.url is the path and the query string
NoRequest == [path |-> "", query |-> "", payment |-> NoHeader, isWebBrowser |-> FALSE]
Requests ==
    [path : {"/weather", "/report", "/free", "/open"}, query : {"", "?city=1"},
     payment : PaymentHeaders, isWebBrowser : BOOLEAN]
Url(q) == <<q.path, q.query>>

\* the statuses the downstream handler answers with
HandlerStatuses == {200, 399, 400, 500}

\* VerifyResponse and the outcome of settle, as the facilitator client hands
\* them to the middleware
NoVerification == [isValid |-> FALSE, type |-> "none", invalidReason |-> ""]
VerifyResponses ==
    [isValid : {FALSE}, type : {"none"}, invalidReason : {"insufficient_funds"}]
    \cup [isValid : {TRUE}, type : {"payload", "transaction"}, invalidReason : {""}]
NoSettlement == [kind |-> "none", success |-> FALSE]
SettleOutcomes ==
    [kind : {"return"}, success : BOOLEAN] \cup {[kind |-> "throw", success |-> FALSE]}

\* responses
NoResponse == [status |-> 0, body |-> "none", error |-> "", paymentResponse |-> FALSE]
PaymentRequired(body, error) ==
    [status |-> 402, body |-> body, error |-> error, paymentResponse |-> FALSE]
HandlerResponse(status) ==
    [status |-> status, body |-> "handler", error |-> "", paymentResponse |-> FALSE]

\* log: the calls the middleware made and their returns, in order;
\* decodedVersion: decodedPayment.x402Version when verify is called (0 before);
\* requirements: the list the payment was matched against (<<>>: not reached);
\* accepts: the accepts of the 402 answered (<<>>: no 402);
\* round, firstAccepts: which request of the client this is, and the accepts
\* of the 402 its first request was answered with
MwReceived == [pc |-> "received", selected |-> 0, decodedVersion |-> 0,
               verification |-> NoVerification,
               handlerStatus |-> 0, settlement |-> NoSettlement,
               res |-> NoResponse, log |-> <<>>,
               requirements |-> <<>>, accepts |-> <<>>,
               round |-> 1, firstAccepts |-> <<>>]

MwIdle ==
    /\ mreq = NoRequest
    /\ mw = [MwReceived EXCEPT !.pc = "idle"]

VerifyIdle ==
    /\ vq = [ver |-> "V2", p |-> <<>>, r |-> <<>>]
    /\ venv = UnsetEnv
    /\ vres = NoResult


(***************************************************************************)
(* submission of the settlement transaction: values                         *)
(***************************************************************************)
\* the settles that submit a transaction with the facilitator's key
Submitters == {"a", "b"}

\* the kinds of error message the catch block of executeGaslessWithdraw tells
\* apart: nonce too low / too high / already used, another message holding
\* "nonce", and a message holding none of these; "rpc": the error of a
\* getTransactionCount query that failed (its message holds no "nonce")
NonceErrors == {"tooLow", "tooHigh", "used", "otherNonce"}
SubmitErrors == NonceErrors \cup {"other"}

\* pc "validate" .. "catch" while the submission runs, then "returned" (with
\* the hash) or "threw" (with the error thrown); sends counts the calls of
\* sendRawTransaction / sendTransaction; txConfigNonce is the nonce
\* validateGaslessWithdraw2 put into txConfig
IdleSubmit == [path |-> "sponsored", pc |-> "idle", attempt |-> 0,
               txConfigNonce |-> 0, latestNonce |-> 0, signedNonce |-> 0,
               sends |-> 0, lastError |-> "none", thrown |-> "none"]

SubmitIdle ==
    /\ zchain = [count |-> 0, faults |-> 0]
    /\ zs = [p \in Submitters |-> IdleSubmit]


(***************************************************************************)
(* the EIP-3009 capability probe: values                                    *)
(***************************************************************************)
\* token contracts: one with transferWithAuthorization, one without
Assets == {"eip3009", "plain"}

\* how readContract(transferWithAuthorization, zero arguments) can end for a
\* token: it returns, or throws a message that says the function does not
\* exist, one of the function's own complaints ("invalid signature", ...),
\* a bare "execution reverted", or anything else (transport errors)
ReadAnswers(asset) ==
    IF asset = "eip3009" THEN {"returned", "businessError", "unknown"}
    ELSE {"functionNotFound", "bareRevert", "unknown"}

ProbeIdle == probes = [asset |-> "eip3009", log |-> <<>>]


(***************************************************************************)
(* pure functions: values                                                   *)
(***************************************************************************)
\* no function called
PureIdle == pf = [fn |-> "none", arg |-> <<>>, out |-> [t |-> "unset", v |-> 0]]


(***************************************************************************)
(* the client's createPaymentPayload: values                                *)
(***************************************************************************)
\* the V2 and the V1 client scheme, and the legacy client's signAuthorization
ClientVersions == {"V2", "V1", "legacy"}

\* validAfter: (now - 600), "10 minutes before"
ValidAfterLead == 600
\* legacy: validAfter = currentTime - 60, validBefore = currentTime +
\* (estimatedProcessingTime ?? 600)
LegacyValidAfterLead == 60
LegacyDefaultProcessingTime == 600

\* maxTimeoutSeconds of the requirement, around verify's 6 second buffer
Timeouts == {ValidBeforeBuffer - 1, ValidBeforeBuffer, ValidBeforeBuffer + 1}

\* the requirement the client pays: hasDomain is extra.name && extra.version,
\* hasAmount whether amount (V1: maxAmountRequired) is there, hasTimeout
\* whether the legacy estimatedProcessingTime is there
ClientRequirements(ver) ==
    [scheme : {"exact"},
     network : IF ver = "V2" THEN {"eip155:56"} ELSE {"56"},
     payTo : {Addr(PayToId, "lower"), Addr(PayToId, "checksum")},
     hasDomain : IF ver = "legacy" THEN {FALSE} ELSE BOOLEAN,
     hasAmount : IF ver = "V1" THEN BOOLEAN ELSE {TRUE},
     amount : 1..MaxAmount, amountTenths : {0}, tokenDecimals : {0},
     maxTimeoutSeconds : Timeouts,
     hasTimeout : IF ver = "legacy" THEN BOOLEAN ELSE {TRUE}]

NoClientRequirements ==
    [scheme |-> "", network |-> "", payTo |-> Addr("", ""), hasDomain |-> FALSE,
     hasAmount |-> FALSE, amount |-> 0, amountTenths |-> 0, tokenDecimals |-> 0,
     maxTimeoutSeconds |-> 0, hasTimeout |-> FALSE]

\* the authorization; hasValue is FALSE when value is undefined
NoAuthorization == [to |-> Addr("", ""), hasValue |-> FALSE, value |-> 0,
                    validAfter |-> 0, validBefore |-> 0]

\* pc: "start", then the await the call stands at ("probe", "allowance",
\* "send", "receipt", "sign"), then "done"; res "payload" or "throw" once done.
\* allowance is currentAllowance, approve the approve transaction ("sent",
\* then the status of its receipt), approved the amount it approves,
\* signature the typed data signed ("eip3009", or "needApprove" for
\* tokenTransferWithAuthorization with needApprove = true)
IdleClient == [ver |-> "V2", pc |-> "idle", r |-> NoClientRequirements, now |-> 0,
               auth |-> NoAuthorization, supports |-> "unset",
               allowance |-> [st |-> "unset", val |-> 0],
               approve |-> "none", approved |-> 0,
               signature |-> "none", res |-> "none"]

ClientIdle == cl = IdleClient

\* readContract(allowance): it throws, or returns the allowance
AllowanceAnswers == {[st |-> "fail", val |-> 0]} \cup
                    {[st |-> "ok", val |-> a] : a \in 0..MaxAmount}

\* waitForTransactionReceipt of the approve transaction: the status of the
\* receipt, or it throws
ApproveReceipts == {"success", "reverted", "throw"}


(***************************************************************************)
(* TokenSymbolUtil: values                                                  *)
(***************************************************************************)
\* Object.keys(TOKEN_MAPPING): integer keys in ascending order, whatever the
\* order they were added in
KeyOrder == <<"56", "97", "196", "8453">>
ChainKeys == {KeyOrder[i] : i \in 1..Len(KeyOrder)}

\* contract addresses, lower case: USDT of chain 56, USDC of chains 8453 and
\* 196, and one no chain has; NoHex does not start with "0x"
UsdtBsc == "0x55d398326f99059ff775485246999027b3197955"
UsdcBase == "0x833589fcd6edb6e08f4c7c32d4f71b54bda02913"
Unlisted == "0xfeed"
NoHex == "feed"
TokenAddresses == {UsdtBsc, UsdcBase, Unlisted}

\* a string argument: its text once trimmed and put in lower case, and how
\* it is spelled
Spellings == {"lower", "paddedUpper"}
Str(norm, spelling) == [norm |-> norm, spelling |-> spelling]

\* tokenAddress.trim().toLowerCase()
NormalizedAddress(s) == s.norm

\* "" in a chain mapping: the chain has no entry for the address
NoSymbol == ""

\* symbol.trim().toUpperCase()
NormalizedSymbol(s) ==
    CASE s.norm = "usdt" -> "USDT"
      [] s.norm = "new"  -> "NEW"
      [] OTHER           -> ""

\* TOKEN_MAPPING as the class is loaded (symbols only)
TOKEN_MAPPING ==
    [c \in ChainKeys |-> [a \in TokenAddresses \cup {NoHex} |->
        CASE c = "56" /\ a = UsdtBsc -> "USDT"
          [] c \in {"8453", "196"} /\ a = UsdcBase -> "USDC"
          [] OTHER -> NoSymbol]]

\* CACHE: for every address whether it has an entry, and the entry
EmptyCache == [a \in TokenAddresses \cup {NoHex} |-> [has |-> FALSE, symbol |-> ""]]

\* no lookup made by the last call
NoLookup == [made |-> FALSE, arg |-> Str("", "lower"), out |-> ""]

\* evicted: the addresses whose cache entry extendTokenMapping has deleted
TokenLoaded == [mapping |-> TOKEN_MAPPING, cache |-> EmptyCache, calls |-> 0,
                last |-> NoLookup, evicted |-> {}]

TokenIdle == tk = TokenLoaded


(***************************************************************************)
(* ZeroGasTool.validateGaslessWithdraw2: values                             *)
(***************************************************************************)
\* pendingNonce: number | null
Null == [t |-> "null", v |-> 0]

\* funData as validateGaslessWithdraw2 tests it: funData itself, its abi,
\* its functionName, its args -- there or not
NoFunData == [present |-> FALSE, abi |-> FALSE, functionName |-> FALSE, args |-> FALSE]

\* the value returned: isValid, whether the error field holds a message, and
\* txConfig (its from, gasPrice and nonce) when it is there
NoTxConfig == [present |-> FALSE, from |-> "", gasPrice |-> 0, nonce |-> 0]
NoValidateResult == [kind |-> "none", isValid |-> FALSE, error |-> FALSE,
                     txConfig |-> NoTxConfig]

\* pc "idle" before the first call, then the await the call stands at
\* ("getNetwork", "populateTransaction", "getLatestNonce", "isSponsorable"),
\* then "done"; sponsorable is the answer of the paymaster ("none": not asked)
NewTool == [pc |-> "idle", calls |-> 0, funData |-> NoFunData, pendingNonce |-> Null,
            nonce |-> 0, sponsorable |-> "none", res |-> NoValidateResult]

ValidateIdle == zv = NewTool


(************************* verify: the call ********************************)
InitVerify ==
    /\ clock \in 1..MaxClock
    /\ vq \in VerifyInputs(clock)
    /\ venv = UnsetEnv
    /\ vres = NoResult
    /\ SettleIdle
    /\ MwIdle
    /\ SubmitIdle
    /\ ProbeIdle
    /\ PureIdle
    /\ ClientIdle
    /\ TokenIdle
    /\ ValidateIdle

\* the chain answers the call verify is waiting on
VerifyChainAnswer ==
    /\ vres.kind = "none"
    /\ LET out == verify(vq.ver, vq.p, vq.r, venv, clock) IN
        /\ out.kind = "await"
        /\ \E a \in Answers(out.call) : venv' = [venv EXCEPT ![out.call] = a]
    /\ UNCHANGED <<clock, probeVars, pureVars, clientVars, tokenVars, validateVars, vq, vres, settleVars, mwVars, submitVars>>

\* verify returns its VerifyResponse
VerifyReturn ==
    /\ vres.kind = "none"
    /\ LET out == verify(vq.ver, vq.p, vq.r, venv, clock) IN
        /\ out.kind = "return"
        /\ vres' = out
    /\ UNCHANGED <<clock, probeVars, pureVars, clientVars, tokenVars, validateVars, vq, venv, settleVars, mwVars, submitVars>>

\* verify rejects: a chain read inside the catch block threw
VerifyThrow ==
    /\ vres.kind = "none"
    /\ LET out == verify(vq.ver, vq.p, vq.r, venv, clock) IN
        /\ out.kind = "throw"
        /\ vres' = out
    /\ UNCHANGED <<clock, probeVars, pureVars, clientVars, tokenVars, validateVars, vq, venv, settleVars, mwVars, submitVars>>

NextVerify == VerifyChainAnswer \/ VerifyReturn \/ VerifyThrow

SpecVerify == InitVerify /\ [][NextVerify]_vars

(***************************************************************************)
(* settle                                                                   *)
(***************************************************************************)
\* the chain-id test answered yes for every chain
IsBscAlways(ver, r) == TRUE

\* parseInt(requirements.network.split(":")[1]) == 56, V1: || networkId === "56"
IsBsc(ver, r) ==
    \/ r.network = "eip155:56"
    \/ ver = "V1" /\ r.networkId = "56"

\* the errorReason of settle's outer catch block
SettleErrorMessage(ver, err) ==
    IF ver = "V1" THEN "transaction_failed"
    ELSE IF err.sel \in Selectors THEN
        CASE err.sel = "0x13be252b" -> "Insufficient token allowance. Please approve the facilitator contract to spend your tokens before making the payment."
          [] err.sel = "0xccea9e6f" -> "Invalid operator. The caller is not authorized to perform this operation."
          [] err.sel = "0xdf8e4372" -> "Authorization not yet valid. The payment authorization is not yet active."
          [] err.sel = "0x0f05f5bf" -> "Authorization expired. The payment authorization has expired."
          [] err.sel = "0x1f6d5aef" -> "Nonce already used. This authorization has already been used."
          [] err.sel = "0x8baa579f" -> "Invalid signature. The payment authorization signature is invalid."
    ELSE IF err.timedOut THEN "Timed out while waiting for transaction"
    ELSE "Failed to settle transaction: error"

\* the transaction field of the catch block: tx || txHashFromError || ""
\* (V1 answers "" always)
CatchTransaction(ver, tx, err) ==
    IF ver = "V1" THEN NoTx
    ELSE IF tx # NoTx THEN tx
    ELSE IF err.timedOut THEN err.hash
    ELSE NoTx

\* settle's outer catch block
SettleCatch(ver, c, err) ==
    [c EXCEPT !.pc = "done", !.caught = err,
              !.res = SettleResult(FALSE, SettleErrorMessage(ver, err),
                                   CatchTransaction(ver, c.tx, err))]

\* Stage A without the test of the deployERC4337WithEIP6492 setting
DeploysWhateverConfig(deploy, sig) == HasDeploymentInfo(sig)

\* does this call deploy the payer's smart wallet first (Stage A condition,
\* before the getCode read)
WantsDeploy(deploy, sig) == deploy /\ HasDeploymentInfo(sig)

SettlePayloads(now, amount) ==
    [scheme : {"exact"}, network : {"eip155:56", "eip155:8453"}, networkId : {"56"},
     to : {Addr(PayToId, "checksum")}, value : {amount},
     validAfter : {now}, validBefore : {now + ValidBeforeBuffer},
     sig : {"eoa", "erc6492"}]

\* the requirements settle is called with: on chain 56 or on chain 8453, the
\* networkId (read by V1) naming the same chain as the network
SettleRequirements ==
    [scheme : {"exact"}, network : {"eip155:56"}, networkId : {"56"},
     payTo : {Addr(PayToId, "lower")}, hasDomain : {TRUE},
     hasAmount : {TRUE}, amount : {MaxAmount},
     amountTenths : {0}, tokenDecimals : {0}]
    \cup
    [scheme : {"exact"}, network : {"eip155:8453"}, networkId : {"8453"},
     payTo : {Addr(PayToId, "lower")}, hasDomain : {TRUE},
     hasAmount : {TRUE}, amount : {MaxAmount},
     amountTenths : {0}, tokenDecimals : {0}]

InitSettle ==
    /\ clock = MaxClock
    /\ VerifyIdle
    /\ \E ver \in Versions, deploy \in BOOLEAN, r \in SettleRequirements :
         \E p \in SettlePayloads(clock, r.amount) :
            /\ p.network = r.network
            /\ deploy = (p.sig = "erc6492")
            /\ sq = [ver |-> ver, deploy |-> deploy, p |-> p, r |-> r]
    /\ chain = [used |-> FALSE, transfers |-> 0, deployed |-> FALSE,
                txs |-> [t \in TxIds |-> "none"]]
    /\ sc = [i \in Calls |-> IdleCall]
    /\ MwIdle
    /\ SubmitIdle
    /\ ProbeIdle
    /\ PureIdle
    /\ ClientIdle
    /\ TokenIdle
    /\ ValidateIdle

Upd(i, c) == sc' = [sc EXCEPT ![i] = c]
\* the receipt of t as a call sees it: t itself if its status is "success"
Seen(t) == IF chain.txs[t] = "success" THEN {t} ELSE {}
Broadcast(t) == chain' = [chain EXCEPT !.txs[t] = "pending"]

\* a settle call begins. V1 re-verifies first; V2 has that step commented out
SettleStart(i) ==
    /\ sc[i].pc = "idle"
    /\ Upd(i, [sc[i] EXCEPT !.pc = IF sq.ver = "V1" THEN "verify" ELSE "stageA",
                            !.startedUsed = chain.used])
    /\ UNCHANGED <<clock, probeVars, pureVars, clientVars, tokenVars, validateVars, verifyVars, mwVars, submitVars, sq, chain>>

\* the facilitator contract: a simulated or mined transfer of the authorization
\* goes through only while its nonce is unused
ContractAllows(a) == a = "ok" => ~chain.used

\* the answers the chain gives to the re-verification inside settle
SettleAnswers(call) ==
    CASE call = "probe"     -> {"false"}
      [] call = "est"       -> {"ok", "0x1f6d5aef", "0x13be252b", "nonError"}
      [] call = "allowance" -> {"ok", "fail"}
      [] call = "code"      -> {"none", "deployed"}
      [] call = "balance"   -> {[st |-> "fail", val |-> 0],
                                [st |-> "ok", val |-> MaxAmount]}

\* V1: the chain answers a call of the re-verification
SettleVerifyAnswer(i) ==
    /\ sc[i].pc = "verify"
    /\ LET out == verify(sq.ver, sq.p, sq.r, sc[i].venv, clock) IN
        /\ out.kind = "await"
        /\ \E a \in SettleAnswers(out.call) :
            /\ out.call = "est" => ContractAllows(a)
            /\ Upd(i, [sc[i] EXCEPT !.venv[out.call] = a])
    /\ UNCHANGED <<clock, probeVars, pureVars, clientVars, tokenVars, validateVars, verifyVars, mwVars, submitVars, sq, chain>>

\* V1: the re-verification ends: invalid returns its reason with no
\* transaction; a throw of verify leaves settle (it is outside the try block)
SettleVerifyDone(i) ==
    /\ sc[i].pc = "verify"
    /\ LET out == verify(sq.ver, sq.p, sq.r, sc[i].venv, clock) IN
        /\ out.kind \in {"return", "throw"}
        /\ Upd(i, IF out.kind = "throw"
                  THEN [sc[i] EXCEPT !.pc = "done", !.venv = UnsetEnv,
                        !.res = SettleThrown]
                  ELSE IF ~out.isValid
                  THEN [sc[i] EXCEPT !.pc = "done", !.venv = UnsetEnv,
                        !.res = SettleResult(FALSE, out.invalidReason, NoTx)]
                  ELSE [sc[i] EXCEPT !.pc = "stageA", !.venv = UnsetEnv])
    /\ UNCHANGED <<clock, probeVars, pureVars, clientVars, tokenVars, validateVars, verifyVars, mwVars, submitVars, sq, chain>>

\* Stage A: parseErc6492Signature, and the getCode read when deployment is
\* configured and the signature carries a factory
SettleStageA(i) ==
    /\ sc[i].pc = "stageA"
    /\ IF WantsDeploy(sq.deploy, sq.p.sig)
       THEN \/ /\ chain.deployed
               /\ Upd(i, [sc[i] EXCEPT !.pc = "probe"])
            \/ /\ ~chain.deployed
               /\ Upd(i, [sc[i] EXCEPT !.pc = "deploySend"])
       ELSE Upd(i, [sc[i] EXCEPT !.pc = "probe"])
    /\ UNCHANGED <<clock, probeVars, pureVars, clientVars, tokenVars, validateVars, verifyVars, mwVars, submitVars, sq, chain>>

\* Stage A: sendTransaction({to: factoryAddress, data: factoryCalldata})
SettleDeploySend(i) ==
    /\ sc[i].pc = "deploySend"
    /\ \/ /\ Broadcast(Tx(i, "deploy"))
          /\ Upd(i, [sc[i] EXCEPT !.pc = "deployWait"])
       \/ /\ \E err \in SendErrors : Upd(i, SettleCatch(sq.ver, sc[i], err))
          /\ UNCHANGED chain
    /\ UNCHANGED <<clock, probeVars, pureVars, clientVars, tokenVars, validateVars, verifyVars, mwVars, submitVars, sq>>

\* Stage A: waitForTransactionReceipt({hash: deployTx}); the status of the
\* receipt is not read
SettleDeployWait(i) ==
    /\ sc[i].pc = "deployWait"
    /\ \/ /\ chain.txs[Tx(i, "deploy")] \in {"success", "reverted"}
          /\ Upd(i, [sc[i] EXCEPT !.pc = "probe",
                     !.okReceipts = @ \cup Seen(Tx(i, "deploy"))])
       \/ \E err \in WaitErrors(Tx(i, "deploy")) : Upd(i, SettleCatch(sq.ver, sc[i], err))
    /\ UNCHANGED <<clock, probeVars, pureVars, clientVars, tokenVars, validateVars, verifyVars, mwVars, submitVars, sq, chain>>

\* verifyTransferWithAuthorizationSupport, then the chain-id test
SettleProbe(i) ==
    /\ sc[i].pc = "probe"
    /\ Upd(i, [sc[i] EXCEPT
                !.pc = IF IsBsc(sq.ver, sq.r) THEN "validate" ELSE "sendDirect"])
    /\ UNCHANGED <<clock, probeVars, pureVars, clientVars, tokenVars, validateVars, verifyVars, mwVars, submitVars, sq, chain>>

\* if (validateResult && validateResult.isValid), with next left true and
\* the direct flow skipped
AfterValidateSkipsDirect(isValid) == IF isValid THEN "execute" ELSE "afterStages"

\* if (validateResult && validateResult.isValid): execute, else next stays
\* true and the direct flow follows
AfterValidate(isValid) == IF isValid THEN "execute" ELSE "sendDirect"

\* Stage B: tool.validateGaslessWithdraw2(funData) answers isValid or not (it
\* catches whatever it throws and answers isValid: false)
SettleValidate(i) ==
    /\ sc[i].pc = "validate"
    /\ \E isValid \in BOOLEAN :
         Upd(i, [sc[i] EXCEPT !.pc = AfterValidate(isValid)])
    /\ UNCHANGED <<clock, probeVars, pureVars, clientVars, tokenVars, validateVars, verifyVars, mwVars, submitVars, sq, chain>>

\* Stage B: tool.executeGaslessWithdraw(txConfig) returns the hash of the
\* broadcast transaction, or throws (caught: the direct flow follows)
SettleExecute(i) ==
    /\ sc[i].pc = "execute"
    /\ \/ /\ Broadcast(Tx(i, "sponsored"))
          /\ Upd(i, [sc[i] EXCEPT !.pc = "waitSponsored", !.tx = Tx(i, "sponsored")])
       \/ /\ Upd(i, [sc[i] EXCEPT !.pc = "sendDirect"])
          /\ UNCHANGED chain
    /\ UNCHANGED <<clock, probeVars, pureVars, clientVars, tokenVars, validateVars, verifyVars, mwVars, submitVars, sq>>

\* Stage B: waitForTransactionReceipt({hash: tx}). Either status sets
\* next = false; a throw is caught and leaves next = true. With status
\* "success" the scan log is posted and not awaited, unless reading
\* payload.resource.url throws first (caught, with next already false)
SettleWaitSponsored(i) ==
    /\ sc[i].pc = "waitSponsored"
    /\ \/ /\ chain.txs[sc[i].tx] = "success"
          /\ \E hasResource \in BOOLEAN :
                Upd(i, [sc[i] EXCEPT !.next = FALSE, !.pc = "afterStages",
                          !.okReceipts = @ \cup Seen(sc[i].tx),
                          !.scan = IF hasResource THEN "posting" ELSE "none"])
       \/ /\ chain.txs[sc[i].tx] = "reverted"
          /\ Upd(i, [sc[i] EXCEPT !.next = FALSE, !.pc = "afterStages"])
       \/ Upd(i, [sc[i] EXCEPT !.pc = "sendDirect"])
    /\ UNCHANGED <<clock, probeVars, pureVars, clientVars, tokenVars, validateVars, verifyVars, mwVars, submitVars, sq, chain>>

\* a scan-log failure that reaches the settle result
LogFailureSurfaces(c, ok) ==
    IF ok THEN [c EXCEPT !.scan = "ok"]
    ELSE [c EXCEPT !.scan = "failed",
                   !.res = SettleResult(FALSE, "transaction_failed", NoTx)]

\* postSettleLog(sendData).catch(logErr => console.error(...)): the promise
\* ends, resolved or rejected; the rejection is logged
PostSettled(c, ok) == [c EXCEPT !.scan = IF ok THEN "ok" ELSE "failed"]

\* the POST of the scan log ends: response ok, or fetch threw / !resp.ok
PostSettleLogEnds(i) ==
    /\ sc[i].scan = "posting"
    /\ \E ok \in BOOLEAN : Upd(i, PostSettled(sc[i], ok))
    /\ UNCHANGED <<clock, probeVars, pureVars, clientVars, tokenVars, validateVars, verifyVars, mwVars, submitVars, sq, chain>>

\* Stage C: sendTransaction({to: facilitator contract, data})
SettleSendDirect(i) ==
    /\ sc[i].pc = "sendDirect"
    /\ \/ /\ Broadcast(Tx(i, "direct"))
          /\ Upd(i, [sc[i] EXCEPT !.pc = "waitDirect", !.tx = Tx(i, "direct")])
       \/ /\ \E err \in SendErrors : Upd(i, SettleCatch(sq.ver, sc[i], err))
          /\ UNCHANGED chain
    /\ UNCHANGED <<clock, probeVars, pureVars, clientVars, tokenVars, validateVars, verifyVars, mwVars, submitVars, sq>>

\* the status test of Stage C, never true
ReceiptNeverFailed(status) == FALSE

\* if (approvalReceipt.status !== "success")
ReceiptFailed(status) == status # "success"

\* Stage C: waitForTransactionReceipt({hash: tx}) and the status test
SettleWaitDirect(i) ==
    /\ sc[i].pc = "waitDirect"
    /\ \/ \E status \in {"success", "reverted"} :
            /\ chain.txs[sc[i].tx] = status
            /\ Upd(i, IF ReceiptFailed(status)
                      THEN [sc[i] EXCEPT !.pc = "done", !.directReceipt = status,
                              !.res = SettleResult(FALSE, "invalid_transaction_state",
                                                   sc[i].tx)]
                      ELSE [sc[i] EXCEPT !.pc = "afterStages", !.directReceipt = status,
                              !.okReceipts = @ \cup Seen(sc[i].tx)])
       \/ \E err \in WaitErrors(sc[i].tx) : Upd(i, SettleCatch(sq.ver, sc[i], err))
    /\ UNCHANGED <<clock, probeVars, pureVars, clientVars, tokenVars, validateVars, verifyVars, mwVars, submitVars, sq, chain>>

\* after the stages. V2 returns success with tx. V1 throws if tx is unset,
\* waits for the receipt of tx once more, does not read its status, and
\* returns success
SettleFinish(i) ==
    /\ sc[i].pc = "afterStages"
    /\ IF sq.ver = "V2"
       THEN Upd(i, [sc[i] EXCEPT !.pc = "done",
                    !.res = SettleResult(TRUE, "", sc[i].tx)])
       ELSE IF sc[i].tx = NoTx
       THEN Upd(i, SettleCatch(sq.ver, sc[i], NoErr))
       ELSE \/ /\ chain.txs[sc[i].tx] \in {"success", "reverted"}
               /\ Upd(i, [sc[i] EXCEPT !.pc = "done",
                          !.okReceipts = @ \cup Seen(sc[i].tx),
                          !.res = SettleResult(TRUE, "", sc[i].tx)])
            \/ \E err \in WaitErrors(sc[i].tx) : Upd(i, SettleCatch(sq.ver, sc[i], err))
    /\ UNCHANGED <<clock, probeVars, pureVars, clientVars, tokenVars, validateVars, verifyVars, mwVars, submitVars, sq, chain>>

\* the chain mines a pending transaction. A transfer of the authorization
\* succeeds at most while its nonce is unused, and consumes it
Mine(t) ==
    /\ chain.txs[t] = "pending"
    /\ IF t[2] = "deploy"
       THEN \/ chain' = [chain EXCEPT !.txs[t] = "success", !.deployed = TRUE]
            \/ chain' = [chain EXCEPT !.txs[t] = "reverted"]
       ELSE \/ /\ ~chain.used
               /\ chain' = [chain EXCEPT !.txs[t] = "success", !.used = TRUE,
                                         !.transfers = @ + 1]
            \/ chain' = [chain EXCEPT !.txs[t] = "reverted"]
    /\ UNCHANGED <<clock, probeVars, pureVars, clientVars, tokenVars, validateVars, verifyVars, mwVars, submitVars, sq, sc>>

NextSettle ==
    \/ \E i \in Calls :
        \/ SettleStart(i)
        \/ SettleVerifyAnswer(i)
        \/ SettleVerifyDone(i)
        \/ SettleStageA(i)
        \/ SettleDeploySend(i)
        \/ SettleDeployWait(i)
        \/ SettleProbe(i)
        \/ SettleValidate(i)
        \/ SettleExecute(i)
        \/ SettleWaitSponsored(i)
        \/ SettleSendDirect(i)
        \/ SettleWaitDirect(i)
        \/ SettleFinish(i)
        \/ PostSettleLogEnds(i)
    \/ \E t \in TxIds : Mine(t)

SpecSettle == InitSettle /\ [][NextSettle]_vars

\* settle on chain 56 with the deployERC4337WithEIP6492 setting on or off and
\* a signature of any kind
InitSettleDeploy ==
    /\ clock = MaxClock
    /\ VerifyIdle
    /\ \E ver \in Versions, deploy \in BOOLEAN, sig \in {"eoa", "erc6492", "erc6492zero"} :
         \E r \in SettleRequirements, p \in SettlePayloads(clock, MaxAmount) :
            /\ r.network = "eip155:56"
            /\ p.network = r.network
            /\ sq = [ver |-> ver, deploy |-> deploy, p |-> [p EXCEPT !.sig = sig], r |-> r]
    /\ chain = [used |-> FALSE, transfers |-> 0, deployed |-> FALSE,
                txs |-> [t \in TxIds |-> "none"]]
    /\ sc = [i \in Calls |-> IdleCall]
    /\ MwIdle
    /\ SubmitIdle
    /\ ProbeIdle
    /\ PureIdle
    /\ ClientIdle
    /\ TokenIdle
    /\ ValidateIdle

SpecSettleDeploy == InitSettleDeploy /\ [][NextSettle]_vars

\* every chain, paymaster and scan call a settle call awaits returns or
\* throws in the end, and a pending transaction is mined in the end
SpecSettleFair == SpecSettle /\ WF_vars(NextSettle)


(***************************************************************************)
(* paymentMiddleware                                                        *)
(***************************************************************************)
NoRoute == [matched |-> FALSE, paymentRequirements |-> <<>>]
\* findMatchingRoute(routePatterns, c.req.path, method)
findMatchingRoute(path) ==
    IF path \in DOMAIN Routes
    THEN [matched |-> TRUE, paymentRequirements |-> Routes[path]]
    ELSE NoRoute

\* the namespace read from the header when it parses and names one, else the
\* primary requirement's
detectedNamespace(primaryRequirement, payment) ==
    IF payment.kind = "json" /\ payment.namespace # "absent"
    THEN payment.namespace
    ELSE primaryRequirement.namespace

\* evmUtils.decodePaymentPayload(payment) returns (TRUE) or throws (FALSE)
decodePaymentPayload(payment) == payment.kind = "json" /\ payment.schemaOk

\* findMatchingPaymentRequirements: the index of the first requirement with
\* the payload's scheme and network id, 0 for undefined
findMatchingPaymentRequirements(requirements, payment) ==
    LET m == {k \in 1..Len(requirements) :
                /\ requirements[k].scheme = payment.scheme
                /\ requirements[k].networkId = payment.networkId} IN
    IF m = {} THEN 0 ELSE CHOOSE k \in m : \A j \in m : k <= j

Outcome(kind, res, selected) == [kind |-> kind, res |-> res, selected |-> selected]

\* the route's requirements left as configured
RequirementsAsConfigured(paymentRequirements, url) == paymentRequirements

\* updatedPaymentRequirements: every requirement of the route with
\* resource: primaryRequirement.resource || c.req.url and
\* payToAddress: getAddress(requirement.payToAddress)
updatedPaymentRequirements(paymentRequirements, url) ==
    LET primaryRequirement == paymentRequirements[1]
        resourceUrl == IF primaryRequirement.resource # ""
                       THEN <<primaryRequirement.resource>> ELSE url IN
    [k \in 1..Len(paymentRequirements) |->
        [paymentRequirements[k] EXCEPT !.resource = resourceUrl,
                                       !.payToAddress = getAddress(@)]]

\* the updated requirements of the route of request q (<<>> for no route)
RequirementsOf(q) ==
    LET matchingRoute == findMatchingRoute(q.path) IN
    IF matchingRoute.matched /\ Len(matchingRoute.paymentRequirements) > 0
    THEN updatedPaymentRequirements(matchingRoute.paymentRequirements, Url(q))
    ELSE <<>>

\* the middleware up to its call of verify: pass the request through, answer
\* 402, or go on to verify with the selected requirement
BeforeVerify(q) ==
    LET matchingRoute == findMatchingRoute(q.path)
        paymentRequirements == matchingRoute.paymentRequirements IN
    IF ~matchingRoute.matched THEN Outcome("next", NoResponse, 0)
    ELSE IF Len(paymentRequirements) = 0 THEN Outcome("next", NoResponse, 0)
    ELSE IF q.payment.kind = "absent" THEN
        Outcome("respond",
                IF q.isWebBrowser THEN PaymentRequired("paywallHtml", "")
                ELSE PaymentRequired("json", "X-PAYMENT header is required"), 0)
    ELSE IF detectedNamespace(paymentRequirements[1], q.payment) # "evm" THEN
        Outcome("respond", PaymentRequired("json", "Unsupported namespace"), 0)
    ELSE IF ~decodePaymentPayload(q.payment) THEN
        Outcome("respond", PaymentRequired("json", "decode error"), 0)
    ELSE LET k == findMatchingPaymentRequirements(RequirementsOf(q), q.payment) IN
        IF k = 0
        THEN Outcome("respond",
                PaymentRequired("json", "Unable to find matching payment requirements"), 0)
        ELSE Outcome("verify", NoResponse, k)

\* decodedPayment.x402Version = x402Version: the version of the decoded
\* payload is overwritten with the middleware's own
DecodedVersion(payment) == x402Version

\* c.json({error: new Error(message), ...}): JSON.stringify of an Error
\* object, which has no enumerable property, is "{}" whatever the message
JsonOfError(message) == "{}"

\* the error of the settle catch block: the one thrown by settle, or
\* new Error(settlement.error || "Settlement failed with undefined data")
SettleError(s) == IF s.kind = "throw" THEN "facilitator error" ELSE "settlement.error"

\* if (!verification.isValid)
VerificationRejectsNone(v) == FALSE
VerificationRejects(v) == ~v.isValid

\* if (res.status >= 400)
HandlerFailedAbove(status) == status > 400
HandlerFailed(status) == status >= 400

\* if (settlement.success), inside the try block
SettlementReturned(s) == s.kind = "return"
SettlementSucceeded(s) == s.kind = "return" /\ s.success

InitMw ==
    /\ clock = MaxClock
    /\ VerifyIdle
    /\ SettleIdle
    /\ mreq \in Requests
    /\ mw = MwReceived
    /\ SubmitIdle
    /\ ProbeIdle
    /\ PureIdle
    /\ ClientIdle
    /\ TokenIdle
    /\ ValidateIdle

\* the request arrives: the middleware runs up to its first await
MwReceive ==
    /\ mw.pc = "received"
    /\ LET out == BeforeVerify(mreq) IN
        mw' = CASE out.kind = "next" ->
                     [mw EXCEPT !.pc = "passing", !.log = <<"handlerStart">>]
                [] out.kind = "respond" ->
                     [mw EXCEPT !.pc = "done", !.res = out.res,
                                !.accepts = RequirementsOf(mreq),
                                !.requirements =
                                    IF out.res.error = "Unable to find matching payment requirements"
                                    THEN RequirementsOf(mreq) ELSE <<>>]
                [] out.kind = "verify" ->
                     [mw EXCEPT !.pc = "verifying", !.selected = out.selected,
                                !.decodedVersion = DecodedVersion(mreq.payment),
                                !.requirements = RequirementsOf(mreq),
                                !.log = <<"verifyCall">>]
    /\ UNCHANGED <<clock, probeVars, pureVars, clientVars, tokenVars, validateVars, verifyVars, settleVars, submitVars, mreq>>

\* return next(): the handler's response is the response
MwPassThrough ==
    /\ mw.pc = "passing"
    /\ \E status \in HandlerStatuses :
         mw' = [mw EXCEPT !.pc = "done", !.handlerStatus = status,
                          !.res = HandlerResponse(status),
                          !.log = Append(@, "handlerEnd")]
    /\ UNCHANGED <<clock, probeVars, pureVars, clientVars, tokenVars, validateVars, verifyVars, settleVars, submitVars, mreq>>

\* verify answers: invalid is answered 402, valid starts the handler
MwVerified ==
    /\ mw.pc = "verifying"
    /\ \E v \in VerifyResponses :
         mw' = IF VerificationRejects(v)
               THEN [mw EXCEPT !.pc = "done", !.verification = v,
                               !.res = PaymentRequired("json", JsonOfError(v.invalidReason)),
                               !.accepts = RequirementsOf(mreq),
                               !.log = Append(@, "verifyReturn")]
               ELSE [mw EXCEPT !.pc = "handling", !.verification = v,
                               !.log = @ \o <<"verifyReturn", "handlerStart">>]
    /\ UNCHANGED <<clock, probeVars, pureVars, clientVars, tokenVars, validateVars, verifyVars, settleVars, submitVars, mreq>>

\* next() resolves: a status >= 400 and a verification of type "transaction"
\* both leave the handler's response as it is; otherwise settle is called
MwHandled ==
    /\ mw.pc = "handling"
    /\ \E status \in HandlerStatuses :
         mw' = IF HandlerFailed(status) \/ mw.verification.type = "transaction"
               THEN [mw EXCEPT !.pc = "done", !.handlerStatus = status,
                               !.res = HandlerResponse(status),
                               !.log = Append(@, "handlerEnd")]
               ELSE [mw EXCEPT !.pc = "settling", !.handlerStatus = status,
                               !.log = @ \o <<"handlerEnd", "settleCall">>]
    /\ UNCHANGED <<clock, probeVars, pureVars, clientVars, tokenVars, validateVars, verifyVars, settleVars, submitVars, mreq>>

\* settle answers or throws: success sets X-PAYMENT-RESPONSE on the handler's
\* response, anything else replaces it by a 402
MwSettled ==
    /\ mw.pc = "settling"
    /\ \E s \in SettleOutcomes :
         mw' = IF SettlementSucceeded(s)
               THEN [mw EXCEPT !.pc = "done", !.settlement = s,
                               !.res = [HandlerResponse(mw.handlerStatus)
                                          EXCEPT !.paymentResponse = TRUE],
                               !.log = Append(@, "settleReturn")]
               ELSE [mw EXCEPT !.pc = "done", !.settlement = s,
                               !.res = PaymentRequired("json", JsonOfError(SettleError(s))),
                               !.accepts = RequirementsOf(mreq),
                               !.log = Append(@, IF s.kind = "throw" THEN "settleThrow"
                                                 ELSE "settleReturn")]
    /\ UNCHANGED <<clock, probeVars, pureVars, clientVars, tokenVars, validateVars, verifyVars, settleVars, submitVars, mreq>>

NextMw == MwReceive \/ MwPassThrough \/ MwVerified \/ MwHandled \/ MwSettled

SpecMw == InitMw /\ [][NextMw]_vars

\* a client's first request carries no payment the middleware can decode
FirstRequests == {q \in Requests : q.payment.kind \in {"absent", "garbage"}}

InitMwPaid ==
    /\ clock = MaxClock
    /\ VerifyIdle
    /\ SettleIdle
    /\ mreq \in FirstRequests
    /\ mw = MwReceived
    /\ SubmitIdle
    /\ ProbeIdle
    /\ PureIdle
    /\ ClientIdle
    /\ TokenIdle
    /\ ValidateIdle

\* the client, answered 402, sends its paid request to the same URL: the
\* middleware function runs again, from the route config and the new request
MwNextRequest ==
    /\ mw.pc = "done" /\ mw.round = 1 /\ mw.res.status = 402
    /\ \E q \in Requests :
         /\ Url(q) = Url(mreq)
         /\ q.payment.kind = "json"
         /\ mreq' = q
         /\ mw' = [MwReceived EXCEPT !.round = 2, !.firstAccepts = mw.accepts]
    /\ UNCHANGED <<clock, probeVars, pureVars, clientVars, tokenVars, validateVars, verifyVars, settleVars, submitVars>>

NextMwPaid == NextMw \/ MwNextRequest

SpecMwPaid == InitMwPaid /\ [][NextMwPaid]_vars


(***************************************************************************)
(* submission of the settlement transaction: ZeroGasTool and the direct     *)
(* sendTransaction of settle                                                 *)
(***************************************************************************)
\* executeGaslessWithdraw(txConfig, maxRetries = 5)
DefaultMaxRetries == 5

\* the rejections the paymaster makes for reasons of its own, in one behaviour
MaxFaults == 6

\* isNonceError: the message holds "nonce too low", ..., or just "nonce"
isNonceError(e) == e \in NonceErrors

\* attempt < maxRetries, made one attempt shorter
AttemptsRemainButOne(attempt, maxRetries) == attempt + 1 < maxRetries

\* attempt < maxRetries, in `if (isNonceError && attempt < maxRetries)`
AttemptsRemain(attempt, maxRetries) == attempt < maxRetries

\* the nonce of the validated txConfig kept for signing
SigningNonceOfTxConfig(txConfigNonce, latestNonce) == txConfigNonce

\* updatedTxConfig = {...txConfig, nonce: latestNonce}
SigningNonce(txConfigNonce, latestNonce) == latestNonce

InitSubmit ==
    /\ clock = MaxClock
    /\ VerifyIdle
    /\ SettleIdle
    /\ MwIdle
    /\ ProbeIdle
    /\ PureIdle
    /\ ClientIdle
    /\ TokenIdle
    /\ ValidateIdle
    /\ zchain = [count |-> 0, faults |-> 0]
    /\ \E path \in [Submitters -> {"sponsored", "direct"}] :
         zs = [p \in Submitters |->
                 [IdleSubmit EXCEPT !.path = path[p],
                     !.pc = IF path[p] = "sponsored" THEN "validate" ELSE "prepare"]]

UpdSubmit(p, s) == zs' = [zs EXCEPT ![p] = s]

\* validateGaslessWithdraw2: getLatestNonce(), setPendingNonce(nonce), and the
\* nonce put into txConfig (the call was found sponsorable)
ZgValidate(p) ==
    /\ zs[p].pc = "validate"
    /\ UpdSubmit(p, [zs[p] EXCEPT !.pc = "fetch", !.txConfigNonce = zchain.count])
    /\ UNCHANGED <<clock, probeVars, pureVars, clientVars, tokenVars, validateVars, verifyVars, settleVars, mwVars, zchain>>

\* an attempt begins: getLatestNonce(true) and wallet.signTransaction; a
\* query that throws is caught by the catch block of the loop
ZgFetch(p) ==
    /\ zs[p].pc = "fetch"
    /\ \/ UpdSubmit(p, [zs[p] EXCEPT !.pc = "send", !.latestNonce = zchain.count,
                          !.signedNonce = SigningNonce(zs[p].txConfigNonce, zchain.count)])
       \/ UpdSubmit(p, [zs[p] EXCEPT !.pc = "catch", !.lastError = "rpc"])
    /\ UNCHANGED <<clock, probeVars, pureVars, clientVars, tokenVars, validateVars, verifyVars, settleVars, mwVars, zchain>>

\* the chain's answer to a signed transaction: accepted when its nonce is the
\* signer's transaction count, "nonce too low" when a transaction took that
\* nonce meanwhile, or a rejection of some kind by the paymaster
Accepted(s) == s.signedNonce = zchain.count
Collided(s) == s.signedNonce < zchain.count

\* paymasterClient.sendRawTransaction(signedTx)
ZgSend(p) ==
    /\ zs[p].pc = "send"
    /\ \/ /\ Accepted(zs[p])
          /\ UpdSubmit(p, [zs[p] EXCEPT !.pc = "returned", !.sends = @ + 1])
          /\ zchain' = [zchain EXCEPT !.count = @ + 1]
       \/ /\ Collided(zs[p])
          /\ UpdSubmit(p, [zs[p] EXCEPT !.pc = "catch", !.sends = @ + 1,
                             !.lastError = "tooLow"])
          /\ UNCHANGED zchain
       \/ /\ zchain.faults < MaxFaults
          /\ \E e \in SubmitErrors :
               UpdSubmit(p, [zs[p] EXCEPT !.pc = "catch", !.sends = @ + 1,
                               !.lastError = e])
          /\ zchain' = [zchain EXCEPT !.faults = @ + 1]
    /\ UNCHANGED <<clock, probeVars, pureVars, clientVars, tokenVars, validateVars, verifyVars, settleVars, mwVars>>

\* the catch block of the loop: a nonce error with attempts left queries the
\* nonce again (getLatestNonce(true), and getLatestNonce(false) after "too
\* high"), sleeps and continues; a query that throws there leaves the
\* function. Anything else throws lastError
ZgCatch(p) ==
    /\ zs[p].pc = "catch"
    /\ IF isNonceError(zs[p].lastError) /\ AttemptsRemain(zs[p].attempt, DefaultMaxRetries)
       THEN \/ UpdSubmit(p, [zs[p] EXCEPT !.pc = "fetch", !.attempt = @ + 1])
            \/ UpdSubmit(p, [zs[p] EXCEPT !.pc = "threw", !.thrown = "rpc"])
       ELSE UpdSubmit(p, [zs[p] EXCEPT !.pc = "threw", !.thrown = zs[p].lastError])
    /\ UNCHANGED <<clock, probeVars, pureVars, clientVars, tokenVars, validateVars, verifyVars, settleVars, mwVars, zchain>>

\* Stage C: signer.sendTransaction reads the signer's pending transaction
\* count for the nonce
DirectPrepare(p) ==
    /\ zs[p].pc = "prepare"
    /\ UpdSubmit(p, [zs[p] EXCEPT !.pc = "sendDirect", !.latestNonce = zchain.count,
                       !.signedNonce = zchain.count])
    /\ UNCHANGED <<clock, probeVars, pureVars, clientVars, tokenVars, validateVars, verifyVars, settleVars, mwVars, zchain>>

\* Stage C: signer.sendTransaction submits; a rejection is thrown to the
\* outer catch block of settle, which returns success:false
DirectSend(p) ==
    /\ zs[p].pc = "sendDirect"
    /\ \/ /\ Accepted(zs[p])
          /\ UpdSubmit(p, [zs[p] EXCEPT !.pc = "returned", !.sends = @ + 1])
          /\ zchain' = [zchain EXCEPT !.count = @ + 1]
       \/ /\ Collided(zs[p])
          /\ UpdSubmit(p, [zs[p] EXCEPT !.pc = "threw", !.sends = @ + 1,
                             !.lastError = "tooLow", !.thrown = "tooLow"])
          /\ UNCHANGED zchain
       \/ /\ zchain.faults < MaxFaults
          /\ \E e \in SubmitErrors :
               UpdSubmit(p, [zs[p] EXCEPT !.pc = "threw", !.sends = @ + 1,
                               !.lastError = e, !.thrown = e])
          /\ zchain' = [zchain EXCEPT !.faults = @ + 1]
    /\ UNCHANGED <<clock, probeVars, pureVars, clientVars, tokenVars, validateVars, verifyVars, settleVars, mwVars>>

NextSubmit ==
    \E p \in Submitters :
        \/ ZgValidate(p)
        \/ ZgFetch(p)
        \/ ZgSend(p)
        \/ ZgCatch(p)
        \/ DirectPrepare(p)
        \/ DirectSend(p)

SpecSubmit == InitSubmit /\ [][NextSubmit]_vars


(***************************************************************************)
(* the EIP-3009 capability probe                                            *)
(***************************************************************************)
\* the probes of one process lifetime
MaxProbes == 4

\* hasTransferWithAuthorization: true if readContract returned or threw one
\* of the function's own complaints, false for every other error
hasTransferWithAuthorization(answer) == answer \in {"returned", "businessError"}

\* verifyTransferWithAuthorizationSupport: the probe, and a log line
verifyTransferWithAuthorizationSupport(answer) == hasTransferWithAuthorization(answer)

InitProbe ==
    /\ clock = MaxClock
    /\ VerifyIdle
    /\ SettleIdle
    /\ MwIdle
    /\ SubmitIdle
    /\ PureIdle
    /\ ClientIdle
    /\ TokenIdle
    /\ ValidateIdle
    /\ \E asset \in Assets : probes = [asset |-> asset, log |-> <<>>]

\* one probe by verify or settle: readContract answers, and the caller
\* encodes !supportEip3009 as needApprove
Probe(by) ==
    /\ Len(probes.log) < MaxProbes
    /\ \E answer \in ReadAnswers(probes.asset) :
         LET supportEip3009 == verifyTransferWithAuthorizationSupport(answer)
         IN probes' = [probes EXCEPT !.log = Append(@,
                          [by |-> by, answer |-> answer,
                           needApprove |-> ~supportEip3009])]
    /\ UNCHANGED <<clock, pureVars, clientVars, tokenVars, validateVars, verifyVars, settleVars, mwVars, submitVars>>

\* who probed last ("none": nobody yet)
LastProbeBy ==
    IF probes.log = <<>> THEN "none" ELSE probes.log[Len(probes.log)].by

\* verify of a payload probes its asset
ProbeInVerify ==
    /\ LastProbeBy \in {"none", "settle"}
    /\ Probe("verify")

\* settle of the payload verified last probes the asset again
ProbeInSettle ==
    /\ LastProbeBy = "verify"
    /\ Probe("settle")

NextProbe == ProbeInVerify \/ ProbeInSettle

SpecProbe == InitProbe /\ [][NextProbe]_vars


(***************************************************************************)
(* getEvmChainId                                                            *)
(***************************************************************************)
\* a network string is the sequence of its parts between colons, at most
\* MaxParts of them
MaxParts == 3

\* the parts: decimal strings, names networkMap has, a name it has not, a
\* name every object inherits, a signed number, the empty string
Parts == {"56", "8453", "0", "eip155", "bsc", "base", "mars", "constructor",
          "-5", ""}

Networks == UNION {[1..n -> Parts] : n \in 1..MaxParts}

\* /^\d+$/.test(s)
IsDigits(s) == s \in {"56", "8453", "0"}

\* JavaScript values: a number, NaN, a function, undefined; "unset" while
\* the call has not returned
Num(v) == [t |-> "number", v |-> v]
NaN == [t |-> "NaN", v |-> 0]
Undefined == [t |-> "undefined", v |-> 0]
Function == [t |-> "function", v |-> 0]
Unset == [t |-> "unset", v |-> 0]

\* Number(s) and parseInt(s, 10) of a part (Number("") is 0)
NumberOf(s) ==
    CASE s = "56" -> Num(56)
      [] s = "8453" -> Num(8453)
      [] s = "0" -> Num(0)
      [] s = "-5" -> Num(0 - 5)
      [] s = "" -> Num(0)
      [] OTHER -> NaN

\* Number.isFinite(n) && n > 0
FinitePositive(n) == n.t = "number" /\ n.v > 0

\* networkMap[raw]: the ids of the names the map holds (those among Parts),
\* for a name of Object.prototype the inherited member, else undefined
networkMap(raw) ==
    IF Len(raw) # 1 THEN Undefined
    ELSE CASE raw[1] = "bsc" -> Num(56)
           [] raw[1] = "base" -> Num(8453)
           [] raw[1] = "constructor" -> Function
           [] OTHER -> Undefined

\* getEvmChainId(network)
getEvmChainId(raw) ==
    IF Len(raw) = 2 /\ FinitePositive(NumberOf(raw[2]))
    THEN NumberOf(raw[2])
    ELSE IF Len(raw) = 1 /\ IsDigits(raw[1]) /\ FinitePositive(NumberOf(raw[1]))
    THEN NumberOf(raw[1])
    ELSE IF networkMap(raw) # Undefined THEN networkMap(raw)
    ELSE Num(1)

InitChainId ==
    /\ clock = MaxClock
    /\ VerifyIdle
    /\ SettleIdle
    /\ MwIdle
    /\ SubmitIdle
    /\ ProbeIdle
    /\ ClientIdle
    /\ TokenIdle
    /\ ValidateIdle
    /\ \E raw \in Networks : pf = [fn |-> "getEvmChainId", arg |-> raw, out |-> Unset]

\* the call returns
GetEvmChainId ==
    /\ pf.fn = "getEvmChainId" /\ pf.out = Unset
    /\ pf' = [pf EXCEPT !.out = getEvmChainId(pf.arg)]
    /\ UNCHANGED <<clock, probeVars, clientVars, tokenVars, validateVars, verifyVars, settleVars, mwVars, submitVars>>

NextChainId == GetEvmChainId

SpecChainId == InitChainId /\ [][NextChainId]_vars


(***************************************************************************)
(* the EIP-3009 capability probe: the error messages                        *)
(***************************************************************************)
\* the phrases an error message of readContract can hold; a message is
\* modelled as the set of them it holds, at most MaxPhrases of them
MaxPhrases == 2

AbsencePhrases == {"function does not exist", "method not found", "unknown method",
                   "function selector not found", "no matching function",
                   "invalid function selector", "function not found"}
PresencePhrases == {"authorization is expired", "invalid signature",
                    "authorization is used", "authorization is not yet valid",
                    "invalid authorization", "invalid signature length"}
OtherPhrases == {"contract function", "not found", "execution reverted",
                 "execution reverted: 0x", "execution reverted: paused",
                 "request timed out"}
Phrases == AbsencePhrases \cup PresencePhrases \cup OtherPhrases

\* the phrases that are substrings of a phrase, itself included
SubstringsOf(q) ==
    {q} \cup
    CASE q = "invalid signature length" -> {"invalid signature"}
      [] q \in {"method not found", "function selector not found",
                "function not found"} -> {"not found"}
      [] q \in {"execution reverted: 0x", "execution reverted: paused"} ->
             {"execution reverted", ":"}
      [] OTHER -> {}

\* an error message: the phrases it holds and the letter case it is in
Messages == [phrases : {s \in SUBSET Phrases : Cardinality(s) <= MaxPhrases},
             spelling : {"lower", "upper"}]

\* errorMessage.toLowerCase(): the same phrases, in lower case
ToLowerCase(message) == [message EXCEPT !.spelling = "lower"]

\* message.includes(pattern), patterns being in lower case
Includes(message, pattern) ==
    /\ message.spelling = "lower"
    /\ \E q \in message.phrases : pattern \in SubstringsOf(q)

\* how the readContract of the probe ends: it returns, or throws a message
ProbeOutcomes == {[threw |-> FALSE, message |-> [phrases |-> {}, spelling |-> "lower"]]}
                 \cup {[threw |-> TRUE, message |-> msg] : msg \in Messages}

Bool(b) == [t |-> "boolean", v |-> IF b THEN 1 ELSE 0]

\* the first test of the catch block left out
NoAbsencePattern(message) == FALSE

\* the first test of the catch block: "errors that the function will not occur"
HasAbsencePattern(message) ==
    LET m == ToLowerCase(message) IN
    \/ Includes(m, "function does not exist")
    \/ Includes(m, "method not found")
    \/ Includes(m, "unknown method")
    \/ Includes(m, "function selector not found")
    \/ Includes(m, "no matching function")
    \/ Includes(m, "invalid function selector")
    \/ Includes(m, "function not found")
    \/ (Includes(m, "contract function") /\ Includes(m, "not found"))

\* the second test: "business logic errors"
HasPresencePattern(message) ==
    LET m == ToLowerCase(message) IN
    \/ Includes(m, "authorization is expired")
    \/ Includes(m, "invalid signature")
    \/ Includes(m, "authorization is used")
    \/ Includes(m, "authorization is not yet valid")
    \/ Includes(m, "invalid authorization")
    \/ Includes(m, "invalid signature length")

\* the third test: "a general execution rollback error"
IsGeneralRevert(message) ==
    LET m == ToLowerCase(message) IN
    \/ Includes(m, "execution reverted: 0x")
    \/ (Includes(m, "execution reverted") /\ ~Includes(m, ":"))

\* hasTransferWithAuthorization, from the outcome of its readContract
hasTransferWithAuthorizationOn(outcome) ==
    IF ~outcome.threw THEN TRUE
    ELSE IF HasAbsencePattern(outcome.message) THEN FALSE
    ELSE IF HasPresencePattern(outcome.message) THEN TRUE
    ELSE IF IsGeneralRevert(outcome.message) THEN FALSE
    ELSE FALSE

InitProbeMessage ==
    /\ clock = MaxClock
    /\ VerifyIdle
    /\ SettleIdle
    /\ MwIdle
    /\ SubmitIdle
    /\ ProbeIdle
    /\ ClientIdle
    /\ TokenIdle
    /\ ValidateIdle
    /\ \E outcome \in ProbeOutcomes :
          pf = [fn |-> "hasTransferWithAuthorization", arg |-> outcome, out |-> Unset]

\* the probe returns
HasTransferWithAuthorization ==
    /\ pf.fn = "hasTransferWithAuthorization" /\ pf.out = Unset
    /\ pf' = [pf EXCEPT !.out = Bool(hasTransferWithAuthorizationOn(pf.arg))]
    /\ UNCHANGED <<clock, probeVars, clientVars, tokenVars, validateVars, verifyVars, settleVars, mwVars, submitVars>>

NextProbeMessage == HasTransferWithAuthorization

SpecProbeMessage == InitProbeMessage /\ [][NextProbeMessage]_vars


(***************************************************************************)
(* parsePaymentRequirementsForAmount                                        *)
(***************************************************************************)
\* amountRequired of a human-readable requirement, in tenths of a token
MaxTenths == 30

\* Math.floor(x / 10) for x >= 0
FloorTenths(x) == x \div 10

\* human-readable requirements without maxAmountRequired, tokenDecimals and
\* tokenSymbol given: amountRequired = amountTenths / 10
HumanReadableRequirements ==
    [hasAmount : {FALSE}, amount : {0}, amountTenths : 0..MaxTenths,
     tokenDecimals : {0, 1}]

\* amountRequired: BigInt(Math.floor(Number(details.amountRequired) *
\* Math.pow(10, details.tokenDecimals)))
parsePaymentRequirementsForAmount(r) ==
    IF r.tokenDecimals = 0 THEN FloorTenths(r.amountTenths) ELSE r.amountTenths

InitAmount ==
    /\ clock = MaxClock
    /\ VerifyIdle
    /\ SettleIdle
    /\ MwIdle
    /\ SubmitIdle
    /\ ProbeIdle
    /\ ClientIdle
    /\ TokenIdle
    /\ ValidateIdle
    /\ \E r \in HumanReadableRequirements :
          pf = [fn |-> "parsePaymentRequirementsForAmount", arg |-> r, out |-> Unset]

\* the client gets the amount it will sign
ParsePaymentRequirementsForAmount ==
    /\ pf.fn = "parsePaymentRequirementsForAmount" /\ pf.out = Unset
    /\ pf' = [pf EXCEPT !.out = Num(parsePaymentRequirementsForAmount(pf.arg))]
    /\ UNCHANGED <<clock, probeVars, clientVars, tokenVars, validateVars, verifyVars, settleVars, mwVars, submitVars>>

NextAmount == ParsePaymentRequirementsForAmount

SpecAmount == InitAmount /\ [][NextAmount]_vars


(***************************************************************************)
(* ZeroGasTool.validateGaslessWithdraw2                                     *)
(***************************************************************************)
\* the calls made of one tool, and the transaction counts the chain reports
MaxValidations == 3
MaxNonce == 2

\* funData complete, or with one of the four things tested missing
FunDatas ==
    {fd \in [present : BOOLEAN, abi : BOOLEAN, functionName : BOOLEAN, args : BOOLEAN] :
        /\ ~fd.present => (~fd.abi /\ ~fd.functionName /\ ~fd.args)
        /\ Cardinality({f \in {"abi", "functionName", "args"} : ~fd[f]}) <= 1
              \/ ~fd.present}

\* what paymasterClient.isSponsorable resolves to: an object whose
\* sponsorable or Sponsorable is true, one with sponsorable false, or null
SponsorableInfos == {"sponsorable", "Sponsorable", "notSponsorable", "null"}

\* sponsorableData.sponsorable || sponsorableData.Sponsorable
isSponsorable(info) == info \in {"sponsorable", "Sponsorable"}

\* a catch block that leaves pendingNonce as it is
CatchKeepsNonce(z) ==
    [z EXCEPT !.pc = "done",
              !.res = [kind |-> "return", isValid |-> FALSE, error |-> TRUE,
                       txConfig |-> NoTxConfig]]

\* the catch block: resetPendingNonce(), return {isValid: false, error:
\* error.message}
ValidateCatch(z) ==
    [z EXCEPT !.pc = "done", !.pendingNonce = Null,
              !.res = [kind |-> "return", isValid |-> FALSE, error |-> TRUE,
                       txConfig |-> NoTxConfig]]

\* txConfig = {...transaction, from: this.wallet.address, nonce, gasLimit,
\* chainId, gasPrice: 0}
TxConfig(nonce) == [present |-> TRUE, from |-> "wallet", gasPrice |-> 0, nonce |-> nonce]

InitValidate ==
    /\ clock = MaxClock
    /\ VerifyIdle
    /\ SettleIdle
    /\ MwIdle
    /\ SubmitIdle
    /\ ProbeIdle
    /\ PureIdle
    /\ ClientIdle
    /\ TokenIdle
    /\ ValidateIdle

\* validateGaslessWithdraw2(funData) is called: the four tests of funData,
\* each throwing into the catch block, then the await of getNetwork
ZvCall ==
    /\ zv.pc \in {"idle", "done"}
    /\ zv.calls < MaxValidations
    /\ \E fd \in FunDatas :
        LET z == [zv EXCEPT !.calls = @ + 1, !.funData = fd, !.sponsorable = "none",
                            !.res = NoValidateResult] IN
        zv' = IF ~fd.present \/ ~fd.abi \/ ~fd.functionName \/ ~fd.args
              THEN ValidateCatch(z)
              ELSE [z EXCEPT !.pc = "getNetwork"]
    /\ UNCHANGED <<clock, probeVars, pureVars, clientVars, tokenVars, verifyVars, settleVars, mwVars, submitVars>>

\* paymasterClient.getNetwork() answers
ZvNetwork ==
    /\ zv.pc = "getNetwork"
    /\ \/ zv' = [zv EXCEPT !.pc = "populateTransaction"]
       \/ zv' = ValidateCatch(zv)
    /\ UNCHANGED <<clock, probeVars, pureVars, clientVars, tokenVars, verifyVars, settleVars, mwVars, submitVars>>

\* new ethers.Contract(...) and populateTransaction(...funData.args) answer
ZvPopulate ==
    /\ zv.pc = "populateTransaction"
    /\ \/ zv' = [zv EXCEPT !.pc = "getLatestNonce"]
       \/ zv' = ValidateCatch(zv)
    /\ UNCHANGED <<clock, probeVars, pureVars, clientVars, tokenVars, verifyVars, settleVars, mwVars, submitVars>>

\* getLatestNonce() answers; setPendingNonce(nonce); txConfig is built and
\* isSponsorable(safeTransaction) awaited
ZvNonce ==
    /\ zv.pc = "getLatestNonce"
    /\ \/ \E n \in 0..MaxNonce :
            zv' = [zv EXCEPT !.pc = "isSponsorable", !.nonce = n,
                             !.pendingNonce = Num(n)]
       \/ zv' = ValidateCatch(zv)
    /\ UNCHANGED <<clock, probeVars, pureVars, clientVars, tokenVars, verifyVars, settleVars, mwVars, submitVars>>

\* isSponsorable answers: not sponsorable resets the nonce and throws into
\* the catch block; sponsorable returns isValid: true with txConfig
ZvSponsorable ==
    /\ zv.pc = "isSponsorable"
    /\ \/ \E info \in SponsorableInfos :
            zv' = IF ~isSponsorable(info)
                  THEN ValidateCatch([zv EXCEPT !.sponsorable = info,
                                                !.pendingNonce = Null])
                  ELSE [zv EXCEPT !.pc = "done", !.sponsorable = info,
                            !.res = [kind |-> "return", isValid |-> TRUE,
                                     error |-> FALSE, txConfig |-> TxConfig(zv.nonce)]]
       \/ zv' = ValidateCatch(zv)
    /\ UNCHANGED <<clock, probeVars, pureVars, clientVars, tokenVars, verifyVars, settleVars, mwVars, submitVars>>

NextValidate == ZvCall \/ ZvNetwork \/ ZvPopulate \/ ZvNonce \/ ZvSponsorable

SpecValidate == InitValidate /\ [][NextValidate]_vars


(***************************************************************************)
(* the client's createPaymentPayload                                        *)
(***************************************************************************)
\* how long after the payload was built the facilitator is seen to verify it
MaxDelay == 2

\* the authorization createPaymentPayload builds at time now (V2 and V1); the
\* legacy signAuthorization is handed from, to and value and reads the time
\* once the approval is confirmed
Authorization(ver, r, now) ==
    [to |-> getAddress(r.payTo), hasValue |-> r.hasAmount, value |-> r.amount,
     validAfter |-> IF ver = "legacy" THEN 0 ELSE now - ValidAfterLead,
     validBefore |-> IF ver = "legacy" THEN 0 ELSE now + r.maxTimeoutSeconds]

\* legacy: validAfter and validBefore, from the time read after the approval
LegacyWindow(auth, r, now) ==
    [auth EXCEPT !.validAfter = now - LegacyValidAfterLead,
                 !.validBefore = now + (IF r.hasTimeout THEN r.maxTimeoutSeconds
                                        ELSE LegacyDefaultProcessingTime)]

\* the call throws: no signature, no payload
ClientThrow(c) == [c EXCEPT !.pc = "done", !.res = "throw"]

\* currentAllowance < requiredAmount; the legacy client approves whatever the
\* allowance is
NeedsApproval(ver, allowance, requiredAmount) ==
    ver = "legacy" \/ allowance < requiredAmount

\* the status of the approval receipt left unread
ApprovalNeverFailed(status) == FALSE

\* approvalReceipt.status !== "success"
ApprovalFailed(status) == status # "success"

InitClient ==
    /\ clock = MaxClock
    /\ VerifyIdle
    /\ SettleIdle
    /\ MwIdle
    /\ SubmitIdle
    /\ ProbeIdle
    /\ PureIdle
    /\ TokenIdle
    /\ ValidateIdle
    /\ \E ver \in ClientVersions : \E r \in ClientRequirements(ver) :
          cl = [IdleClient EXCEPT !.ver = ver, !.pc = "start", !.r = r]

\* createPaymentPayload reads the time and builds the authorization, then
\* awaits the capability probe; the legacy signAuthorization starts at the
\* allowance read
ClientCreate ==
    /\ cl.pc = "start"
    /\ cl' = [cl EXCEPT !.now = clock,
                        !.auth = Authorization(cl.ver, cl.r, clock),
                        !.pc = IF cl.ver = "legacy" THEN "allowance" ELSE "probe"]
    /\ UNCHANGED <<clock, probeVars, pureVars, tokenVars, validateVars, verifyVars, settleVars, mwVars, submitVars>>

\* verifyTransferWithAuthorizationSupport answers; both signing functions
\* throw when extra.name or extra.version is missing, signAuthorization throws
\* on BigInt(undefined)
ClientProbed ==
    /\ cl.pc = "probe"
    /\ \E s \in {"true", "false"} :
        cl' = IF ~cl.r.hasDomain THEN ClientThrow([cl EXCEPT !.supports = s])
              ELSE IF s = "true"
              THEN IF ~cl.auth.hasValue THEN ClientThrow([cl EXCEPT !.supports = s])
                   ELSE [cl EXCEPT !.supports = s, !.pc = "sign"]
              ELSE [cl EXCEPT !.supports = s, !.pc = "allowance"]
    /\ UNCHANGED <<clock, probeVars, pureVars, tokenVars, validateVars, verifyVars, settleVars, mwVars, submitVars>>

\* readContract(allowance) answers: BigInt(authorization.value), then the
\* approve transaction is sent if the allowance is too low
ClientAllowanceRead ==
    /\ cl.pc = "allowance"
    /\ \E a \in AllowanceAnswers :
        cl' = IF a.st = "fail" \/ ~cl.auth.hasValue
              THEN ClientThrow([cl EXCEPT !.allowance = a])
              ELSE IF NeedsApproval(cl.ver, a.val, cl.auth.value)
              THEN [cl EXCEPT !.allowance = a, !.pc = "send"]
              ELSE [cl EXCEPT !.allowance = a, !.pc = "sign"]
    /\ UNCHANGED <<clock, probeVars, pureVars, tokenVars, validateVars, verifyVars, settleVars, mwVars, submitVars>>

\* sendTransaction(approve(facilitator, requiredAmount)) returns the hash or
\* throws
ClientApproveSent ==
    /\ cl.pc = "send"
    /\ \/ cl' = [cl EXCEPT !.approve = "sent", !.approved = cl.auth.value,
                           !.pc = "receipt"]
       \/ cl' = ClientThrow(cl)
    /\ UNCHANGED <<clock, probeVars, pureVars, tokenVars, validateVars, verifyVars, settleVars, mwVars, submitVars>>

\* waitForTransactionReceipt answers
ClientApproveReceipt ==
    /\ cl.pc = "receipt"
    /\ \E status \in ApproveReceipts :
        cl' = IF status = "throw" THEN ClientThrow(cl)
              ELSE IF ApprovalFailed(status)
              THEN ClientThrow([cl EXCEPT !.approve = status])
              ELSE [cl EXCEPT !.approve = status, !.pc = "sign",
                              !.auth = IF cl.ver = "legacy"
                                       THEN LegacyWindow(cl.auth, cl.r, clock)
                                       ELSE cl.auth]
    /\ UNCHANGED <<clock, probeVars, pureVars, tokenVars, validateVars, verifyVars, settleVars, mwVars, submitVars>>

\* signTypedData returns the signature, or throws (the wallet refuses)
ClientSigned ==
    /\ cl.pc = "sign"
    /\ \/ cl' = [cl EXCEPT !.pc = "done", !.res = "payload",
                           !.signature = IF cl.supports = "true" THEN "eip3009"
                                         ELSE "needApprove"]
       \/ cl' = ClientThrow(cl)
    /\ UNCHANGED <<clock, probeVars, pureVars, tokenVars, validateVars, verifyVars, settleVars, mwVars, submitVars>>

NextClient ==
    \/ ClientCreate
    \/ ClientProbed
    \/ ClientAllowanceRead
    \/ ClientApproveSent
    \/ ClientApproveReceipt
    \/ ClientSigned

SpecClient == InitClient /\ [][NextClient]_vars

(***************************************************************************)
(* a payment: createPaymentPayload, then the facilitator's verify           *)
(***************************************************************************)
\* the PaymentPayload the facilitator receives: the payload the client built
\* with an ECDSA signature, its scheme and network those of the requirement
\* the client accepted
PaymentPayload(c) ==
    [scheme |-> c.r.scheme, network |-> c.r.network, networkId |-> "56",
     to |-> c.auth.to, value |-> c.auth.value,
     validAfter |-> c.auth.validAfter, validBefore |-> c.auth.validBefore,
     sig |-> "eoa"]

InitPay ==
    /\ clock = MaxClock
    /\ VerifyIdle
    /\ SettleIdle
    /\ MwIdle
    /\ SubmitIdle
    /\ ProbeIdle
    /\ PureIdle
    /\ TokenIdle
    /\ ValidateIdle
    /\ \E ver \in Versions : \E r \in ClientRequirements(ver) :
          cl = [IdleClient EXCEPT !.ver = ver, !.pc = "start", !.r = r]

\* time passes, up to MaxDelay seconds, until the facilitator reads its clock
Tick ==
    /\ cl.pc # "submitted"
    /\ clock < MaxClock + MaxDelay
    /\ clock' = clock + 1
    /\ UNCHANGED <<probeVars, pureVars, clientVars, tokenVars, validateVars, verifyVars, settleVars, mwVars, submitVars>>

\* the payload reaches the facilitator, whose verify is called with it and
\* with the requirement it was built for
PaySubmit ==
    /\ cl.pc = "done" /\ cl.res = "payload"
    /\ cl' = [cl EXCEPT !.pc = "submitted"]
    /\ vq' = [ver |-> cl.ver, p |-> PaymentPayload(cl), r |-> cl.r]
    /\ UNCHANGED <<clock, probeVars, pureVars, tokenVars, validateVars, venv, vres, settleVars, mwVars, submitVars>>

PayVerifyChainAnswer == cl.pc = "submitted" /\ VerifyChainAnswer
PayVerifyReturn == cl.pc = "submitted" /\ VerifyReturn
PayVerifyThrow == cl.pc = "submitted" /\ VerifyThrow

NextPay ==
    \/ NextClient
    \/ Tick
    \/ PaySubmit
    \/ PayVerifyChainAnswer
    \/ PayVerifyReturn
    \/ PayVerifyThrow

SpecPay == InitPay /\ [][NextPay]_vars


(***************************************************************************)
(* TokenSymbolUtil                                                          *)
(***************************************************************************)
\* the number of calls made of the class
MaxTokenCalls == 3

\* normalizedAddress.startsWith("0x")
StartsWith0x(a) == a \in TokenAddresses

\* step 3 of getTokenSymbolByAddress: the symbol of the first chain of
\* Object.keys whose mapping has the address, "" if none has
RECURSIVE FirstMatch(_, _, _)
FirstMatch(mapping, a, i) ==
    IF i > Len(KeyOrder) THEN ""
    ELSE IF mapping[KeyOrder[i]][a] # NoSymbol THEN mapping[KeyOrder[i]][a]
    ELSE FirstMatch(mapping, a, i + 1)

\* the value getTokenSymbolByAddress returns
getTokenSymbolByAddress(t, tokenAddress) ==
    LET a == NormalizedAddress(tokenAddress) IN
    IF a = "" \/ ~StartsWith0x(a) THEN ""
    ELSE IF t.cache[a].has THEN t.cache[a].symbol
    ELSE FirstMatch(t.mapping, a, 1)

\* the cache it leaves
CacheAfterLookup(t, tokenAddress) ==
    LET a == NormalizedAddress(tokenAddress) IN
    IF a = "" \/ ~StartsWith0x(a) \/ t.cache[a].has THEN t.cache
    ELSE [t.cache EXCEPT ![a] = [has |-> TRUE,
                                 symbol |-> FirstMatch(t.mapping, a, 1)]]

\* extendTokenMapping that leaves the cache as it is
CacheKept(cache, a) == cache

\* this.CACHE.delete(normalizedAddress)
CacheDelete(cache, a) == [cache EXCEPT ![a] = [has |-> FALSE, symbol |-> ""]]

\* the arguments of the calls
LookupArguments ==
    {Str(a, s) : a \in TokenAddresses \cup {NoHex, ""}, s \in Spellings}
ExtendChains == {Str("56", "lower"), Str("97", "paddedUpper"), Str("", "paddedUpper")}
ExtendAddresses == {Str(a, s) : a \in TokenAddresses \cup {""}, s \in {"paddedUpper"}}
ExtendSymbols == {Str("usdt", "lower"), Str("new", "paddedUpper"), Str("", "paddedUpper")}
ExtendNames == {Str("token", "lower"), Str("", "paddedUpper")}

InitToken ==
    /\ clock = MaxClock
    /\ VerifyIdle
    /\ SettleIdle
    /\ MwIdle
    /\ SubmitIdle
    /\ ProbeIdle
    /\ PureIdle
    /\ ClientIdle
    /\ TokenIdle
    /\ ValidateIdle

GetTokenSymbolByAddress ==
    /\ tk.calls < MaxTokenCalls
    /\ \E tokenAddress \in LookupArguments :
        tk' = [tk EXCEPT !.calls = @ + 1,
                         !.cache = CacheAfterLookup(tk, tokenAddress),
                         !.last = [made |-> TRUE, arg |-> tokenAddress,
                                   out |-> getTokenSymbolByAddress(tk, tokenAddress)]]
    /\ UNCHANGED <<clock, probeVars, pureVars, clientVars, validateVars, verifyVars, settleVars, mwVars, submitVars>>

ExtendTokenMapping ==
    /\ tk.calls < MaxTokenCalls
    /\ \E chainId \in ExtendChains, tokenAddress \in ExtendAddresses,
          symbol \in ExtendSymbols, name \in ExtendNames :
        LET c == chainId.norm
            a == NormalizedAddress(tokenAddress)
            s == NormalizedSymbol(symbol) IN
        tk' = IF c = "" \/ a = "" \/ s = "" \/ name.norm = ""
              THEN [tk EXCEPT !.calls = @ + 1, !.last = NoLookup]
              ELSE [tk EXCEPT !.calls = @ + 1, !.last = NoLookup,
                              !.mapping[c][a] = s,
                              !.cache = CacheDelete(tk.cache, a),
                              !.evicted = IF tk.cache[a].has THEN @ \cup {a} ELSE @]
    /\ UNCHANGED <<clock, probeVars, pureVars, clientVars, validateVars, verifyVars, settleVars, mwVars, submitVars>>

ClearCache ==
    /\ tk.calls < MaxTokenCalls
    /\ tk' = [tk EXCEPT !.calls = @ + 1, !.last = NoLookup, !.cache = EmptyCache]
    /\ UNCHANGED <<clock, probeVars, pureVars, clientVars, validateVars, verifyVars, settleVars, mwVars, submitVars>>

NextToken == GetTokenSymbolByAddress \/ ExtendTokenMapping \/ ClearCache

SpecToken == InitToken /\ [][NextToken]_vars


(***************************************************************************)
(* Properties of verify, checked under SpecVerify                           *)
(***************************************************************************)
VerifyReturned == vres.kind = "return"
VerifiedOk == VerifyReturned /\ vres.isValid

\* the amount the requirement asks for, in atomic units
ClaimedAmount ==
    IF vq.ver = "V2" \/ vq.r.hasAmount THEN vq.r.amount
    ELSE IF vq.r.tokenDecimals = 1 THEN vq.r.amountTenths
    ELSE (vq.r.amountTenths + 5) \div 10

ClaimedNetwork ==
    IF vq.ver = "V1" /\ vq.p.network = "null" THEN vq.p.networkId ELSE vq.p.network

\* C1: whenever verify (V2 or V1) returns isValid:true, at the now it sampled
\* the recipient is the requirement's payTo (same address whatever its letter
\* case), validAfter <= now, validBefore >= now + 6, value >= required amount,
\* both schemes are "exact" and the payload's network is the requirement's.
C1_VerifiedImpliesChecks ==
    VerifiedOk =>
        /\ vq.p.to.id = vq.r.payTo.id
        /\ vq.p.validAfter <= clock
        /\ vq.p.validBefore >= clock + 6
        /\ clock < vq.p.validBefore - 5
        /\ vq.p.value >= ClaimedAmount
        /\ vq.p.scheme = "exact" /\ vq.r.scheme = "exact"
        /\ ClaimedNetwork = vq.r.network

\* a verify call that returned isValid:true for a recipient written in another
\* letter case than the requirement's payTo
C1_Witness == VerifiedOk /\ vq.p.to # vq.r.payTo /\ vq.p.validBefore = clock + 6
\* ---- the order of verify's checks ----
\* does the named check fail, on the payload, the requirement and the answers
\* the chain gave (a check whose chain call was never issued has not failed)
CheckFails(c) ==
    CASE c = "scheme"      -> vq.p.scheme # "exact" \/ vq.r.scheme # "exact"
      [] c = "domain"      -> vq.ver = "V2" /\ ~vq.r.hasDomain
      [] c = "network"     -> ClaimedNetwork # vq.r.network
      [] c = "probe"       -> FALSE
      [] c = "est"         -> venv.est \in Selectors \cup {"otherError"}
      [] c = "wallet"      -> /\ venv.est = "nonError"
                              /\ \/ vq.p.sig = "eoa"
                                 \/ venv.code = "deployed"
                                 \/ venv.code = "none" /\ vq.p.sig # "erc6492"
      [] c = "recipient"   -> vq.p.to.id # vq.r.payTo.id
      [] c = "validBefore" -> vq.p.validBefore < clock + 6
      [] c = "validAfter"  -> vq.p.validAfter > clock
      [] c = "balance"     -> venv.balance.st = "ok" /\ venv.balance.val < ClaimedAmount
      [] c = "value"       -> vq.p.value < ClaimedAmount

\* the invalidReasons a failing check is reported with
ReasonsOf(c) ==
    CASE c = "scheme"      -> {"unsupported_scheme"}
      [] c = "domain"      -> {"missing_eip712_domain"}
      [] c = "network"     -> {"network_mismatch"}
      [] c = "probe"       -> {}
      [] c = "est"         -> {EstErrorMessage(x) : x \in Selectors \cup {"otherError"}}
      [] c = "wallet"      -> {"invalid_exact_evm_payload_undeployed_smart_wallet",
                               "invalid_exact_evm_payload_signature"}
      [] c = "recipient"   -> {"invalid_exact_evm_payload_recipient_mismatch"}
      [] c = "validBefore" -> {"invalid_exact_evm_payload_authorization_valid_before"}
      [] c = "validAfter"  -> {"invalid_exact_evm_payload_authorization_valid_after"}
      [] c = "balance"     -> {"insufficient_funds"}
      [] c = "value"       -> {"invalid_exact_evm_payload_authorization_value"}

\* the chain calls that belong to a check
CallsOf(c) ==
    CASE c = "probe"   -> {"probe"}
      [] c = "est"     -> {"est", "allowance"}
      [] c = "wallet"  -> {"code"}
      [] c = "balance" -> {"balance"}
      [] OTHER         -> {}

CallIssued(call) ==
    IF call = "balance" THEN venv.balance.st # "unset" ELSE venv[call] # "unset"

\* the first chain call of a check was issued (where the check has one to make)
CheckRan(c) ==
    CASE c = "probe"   -> CallIssued("probe")
      [] c = "est"     -> CallIssued("est")
      [] c = "wallet"  -> venv.est = "nonError" /\ vq.p.sig # "eoa" => CallIssued("code")
      [] c = "balance" -> CallIssued("balance")
      [] OTHER         -> TRUE

\* "first failure returns", for an order of checks: a valid result means no
\* check failed; an invalid one carries the reason of the earliest failing
\* check, every earlier check ran, and no chain call of a later check was issued
FirstFailureReturns(order) ==
    LET failing == {i \in 1..Len(order) : CheckFails(order[i])} IN
    VerifyReturned =>
        IF vres.isValid THEN failing = {}
        ELSE /\ failing # {}
             /\ LET k == CHOOSE i \in failing : \A j \in failing : i <= j IN
                 /\ vres.invalidReason \in ReasonsOf(order[k])
                 /\ \A j \in 1..(k - 1) : CheckRan(order[j])
                 /\ \A j \in (k + 1)..Len(order) :
                        \A call \in CallsOf(order[j]) : ~CallIssued(call)

\* the order the claim gives
ClaimedOrder == <<"scheme", "network", "probe", "est", "wallet",
                  "recipient", "validBefore", "validAfter", "balance", "value">>

\* the order of the code: V2 checks the EIP-712 domain of the requirement
\* between the scheme guard and the network match
CodeOrder == <<"scheme", "domain", "network", "probe", "est", "wallet",
               "recipient", "validBefore", "validAfter", "balance", "value">>

\* C7 as stated: verify evaluates scheme guard, network match, capability
\* probe, gas simulation, smart-wallet analysis, then the field checks
\* (recipient, validBefore, validAfter, balance, value) and returns the reason
\* of the earliest failing check of that order, issuing no later chain call.
C7_ClaimedOrder ==
    VerifyReturned /\ (\E i \in 1..Len(ClaimedOrder) : CheckFails(ClaimedOrder[i]))
        => FirstFailureReturns(ClaimedOrder)

\* C7 amended: the same with the order of the code, in which V2's check of the
\* requirement's EIP-712 domain (missing_eip712_domain) comes between the
\* scheme guard and the network match.
C7_CodeOrder == FirstFailureReturns(CodeOrder)

\* a payload failing two field checks at once, after a gas simulation that passed
C7_Witness ==
    /\ VerifyReturned /\ venv.est = "ok"
    /\ vq.p.to.id # vq.r.payTo.id /\ vq.p.validBefore < clock + 6
    /\ vres.invalidReason = "invalid_exact_evm_payload_recipient_mismatch"

\* ---- the closed taxonomy of reasons ----
Taxonomy == {"insufficient_funds", "unsupported_scheme", "network_mismatch",
    "missing_eip712_domain", "invalid_exact_evm_payload_signature",
    "invalid_exact_evm_payload_undeployed_smart_wallet",
    "invalid_exact_evm_payload_recipient_mismatch",
    "invalid_exact_evm_payload_authorization_valid_before",
    "invalid_exact_evm_payload_authorization_valid_after",
    "invalid_exact_evm_payload_authorization_value", "invalid_scheme",
    "invalid_transaction_state", "invalid_payload", "invalid_network",
    "invalid_x402_version", "payment_expired", "unexpected_verify_error",
    "unexpected_settle_error"}

\* C8 as stated (verify): every invalidReason verify returns is one of the
\* strings of the closed taxonomy, also when gas estimation fails.
C8_VerifyReasonInTaxonomy ==
    VerifyReturned /\ ~vres.isValid => vres.invalidReason \in Taxonomy

\* ---- boundaries ----
\* every check other than validBefore and value passes, the gas simulation
\* succeeded
OtherChecksPass ==
    /\ vq.p.scheme = "exact" /\ vq.r.scheme = "exact"
    /\ vq.ver = "V2" => vq.r.hasDomain
    /\ ClaimedNetwork = vq.r.network
    /\ venv.est = "ok"
    /\ vq.p.to.id = vq.r.payTo.id
    /\ vq.p.validAfter <= clock

BalanceSufficient == venv.balance.st = "ok" /\ venv.balance.val >= ClaimedAmount

\* C9: when every other check passes, validBefore = now + 5 is rejected with
\* ..._valid_before and validBefore = now + 6 is accepted; value = required is
\* accepted and value = required - 1 is rejected with ..._authorization_value.
C9_Boundaries ==
    VerifyReturned /\ OtherChecksPass =>
        /\ vq.p.validBefore = clock + 5 =>
              /\ ~vres.isValid
              /\ vres.invalidReason = "invalid_exact_evm_payload_authorization_valid_before"
        /\ vq.p.validBefore = clock + 6 =>
              /\ vres.invalidReason # "invalid_exact_evm_payload_authorization_valid_before"
              /\ BalanceSufficient /\ vq.p.value = ClaimedAmount => vres.isValid
        /\ vq.p.validBefore >= clock + 6 /\ BalanceSufficient /\ vq.p.value = ClaimedAmount - 1 =>
              /\ ~vres.isValid
              /\ vres.invalidReason = "invalid_exact_evm_payload_authorization_value"

\* verify accepted a payload sitting on both boundaries
C9_Witness ==
    /\ VerifiedOk /\ OtherChecksPass /\ BalanceSufficient
    /\ vq.p.validBefore = clock + 6 /\ vq.p.value = ClaimedAmount

\* ---- expired authorizations ----
\* C10 as stated (verify): for an expired authorization (validBefore < now)
\* with matching scheme, network and recipient, verify returns invalidReason
\* invalid_exact_evm_payload_authorization_valid_before, whatever the gas
\* simulation reports.
C10_ExpiredReason ==
    /\ VerifyReturned
    /\ vq.p.validBefore < clock
    /\ vq.p.scheme = "exact" /\ vq.r.scheme = "exact"
    /\ vq.ver = "V2" => vq.r.hasDomain
    /\ ClaimedNetwork = vq.r.network
    /\ vq.p.to.id = vq.r.payTo.id
    => /\ ~vres.isValid
       /\ vres.invalidReason = "invalid_exact_evm_payload_authorization_valid_before"


\* the reasons the field checks return
FieldCheckReasons ==
    {"invalid_exact_evm_payload_recipient_mismatch",
     "invalid_exact_evm_payload_authorization_valid_before",
     "invalid_exact_evm_payload_authorization_valid_after",
     "insufficient_funds",
     "invalid_exact_evm_payload_authorization_value"}

\* C21 as stated: when the gas simulation fails with an error that holds none
\* of the six selectors, verify does not return at that point; it goes on to
\* the smart-wallet analysis, whose results are the signature and
\* undeployed-wallet reasons and those of the field checks.
C21_OtherGasErrorFallsThrough ==
    VerifyReturned /\ venv.est \in {"otherError", "nonError"} =>
        /\ vres.invalidReason # "Failed to estimate gas: execution reverted"
        /\ vq.p.sig # "eoa" => venv.code # "unset"

\* C22 as stated: for a signature longer than 65 bytes whose gas simulation
\* failed with a non-selector error, no payer code and EIP-6492 deployment
\* data lead on to the field checks, no payer code without such data gives
\* the undeployed-smart-wallet reason, payer code gives the signature reason.
C22_SmartWalletOutcomes ==
    VerifyReturned /\ venv.est \in {"otherError", "nonError"} /\ vq.p.sig # "eoa" =>
        /\ venv.code \in {"none", "deployed"}
        /\ venv.code = "none" /\ vq.p.sig = "erc6492" =>
              vres.isValid \/ vres.invalidReason \in FieldCheckReasons
        /\ venv.code = "none" /\ vq.p.sig # "erc6492" =>
              /\ ~vres.isValid
              /\ vres.invalidReason = "invalid_exact_evm_payload_undeployed_smart_wallet"
        /\ venv.code = "deployed" =>
              /\ ~vres.isValid
              /\ vres.invalidReason = "invalid_exact_evm_payload_signature"

\* C23 as stated: a failing chain read (balanceOf, the allowance read after
\* an insufficient-allowance simulation error, the payer code read) never
\* makes verify throw, and after a failing balanceOf verify goes on to the
\* value check and can return isValid true.
C23_ChainReadErrorsTolerated ==
    /\ vres.kind # "throw"
    /\ VerifyReturned /\ venv.balance.st = "fail" =>
          /\ vres.invalidReason # "insufficient_funds"
          /\ vres.isValid = (vq.p.value >= RequiredAmount(vq.ver, vq.r))


(***************************************************************************)
(* Properties of settle, checked under SpecSettle                           *)
(***************************************************************************)
SettleReturned(i) == sc[i].pc = "done" /\ sc[i].res.kind = "return"

\* C2 as stated: settle (V2 and V1, Stage B and Stage C) returns success:true
\* only if it observed a receipt with status "success" for the transaction
\* hash it returns; a sponsored transaction whose receipt is not successful
\* never yields success:true.
C2_SuccessNeedsReceipt ==
    \A i \in Calls :
        SettleReturned(i) /\ sc[i].res.success =>
            sc[i].res.transaction \in sc[i].okReceipts

\* C3 as stated, in its weakest reading: the authorization is transferred at
\* most once on-chain, and a settle call that begins after it was consumed is
\* rejected (it does not answer success:true).
C3_ConsumedOnce ==
    /\ chain.transfers <= 1
    /\ \A i \in Calls :
          SettleReturned(i) /\ sc[i].startedUsed => ~sc[i].res.success


\* C11 as stated: of two settle calls with the same authorization, the one
\* made after the authorization was consumed returns success:false with
\* errorReason nonce_used or invalid_transaction_state, on the direct and on
\* the sponsored path.
C11_SecondSettleRejected ==
    \A i \in Calls :
        SettleReturned(i) /\ sc[i].startedUsed =>
            /\ ~sc[i].res.success
            /\ sc[i].res.errorReason \in {"nonce_used", "invalid_transaction_state"}


\* ---- Stage B falls through to Stage C ----
StageBSteps == {"validate", "execute", "waitSponsored"}

\* C12: on chain 56, when Stage B ends without a receipt of the sponsored
\* transaction (the paymaster answers not sponsorable, the sponsored submit
\* throws, or the wait for the receipt throws), the very next step of settle
\* is the direct submission of Stage C, with nothing returned in between; and
\* a success returned by a call that saw no sponsored receipt carries the
\* direct transaction, whose receipt the call saw succeed.
C12_FallsThroughToStageC ==
    /\ [][\A i \in Calls :
            sc[i].pc \in StageBSteps /\ sc'[i].pc \notin StageBSteps =>
                \/ /\ sc'[i].pc = "sendDirect"
                   /\ sc'[i].next /\ sc'[i].res.kind = "none"
                \/ /\ sc[i].pc = "waitSponsored"
                   /\ chain.txs[sc[i].tx] \in {"success", "reverted"}
                   /\ sc'[i].pc = "afterStages"]_vars
    /\ [](\A i \in Calls :
            SettleReturned(i) /\ sc[i].next /\ sc[i].res.success =>
                /\ sc[i].res.transaction = Tx(i, "direct")
                /\ Tx(i, "direct") \in sc[i].okReceipts)

\* the sponsored transaction was broadcast, the wait for its receipt threw,
\* and the call returned the success of its direct transaction
C12_Witness ==
    \E i \in Calls :
        /\ SettleReturned(i) /\ sc[i].res.success
        /\ chain.txs[Tx(i, "sponsored")] # "none"
        /\ sc[i].res.transaction = Tx(i, "direct")


\* C13: in Stage C, when the direct transaction was sent and the receipt read
\* for it has a status other than "success", settle returns success:false
\* with errorReason invalid_transaction_state and the hash of that
\* transaction (V2 and V1).
C13_RevertedDirectReceipt ==
    \A i \in Calls :
        sc[i].directReceipt = "reverted" =>
            /\ sc[i].pc = "done"
            /\ sc[i].res = [kind |-> "return", success |-> FALSE,
                            errorReason |-> "invalid_transaction_state",
                            transaction |-> Tx(i, "direct")]

\* a call read the reverted receipt of its direct transaction
C13_Witness ==
    \E i \in Calls :
        /\ sc[i].directReceipt = "reverted" /\ chain.txs[Tx(i, "direct")] = "reverted"
        /\ SettleReturned(i)


\* C18 as stated: when a settlement transaction was broadcast and settle
\* returns success false, the transaction field is the hash of a broadcast
\* transaction, never empty, and a "Timed out while waiting for transaction"
\* message is the errorReason; for V2 and for V1.
C18_FailureKeepsHash ==
    \A i \in Calls :
        SettleReturned(i) /\ ~sc[i].res.success /\ sc[i].tx # NoTx =>
            /\ sc[i].res.transaction # NoTx
            /\ chain.txs[sc[i].res.transaction] # "none"
            /\ sc[i].caught.timedOut =>
                  sc[i].res.errorReason = "Timed out while waiting for transaction"


\* C19: the scan-log POST is fire-and-forget. The end of the POST, good or
\* bad, changes nothing of the call but the state of the POST; settle does
\* not wait for it; and a scan log is posted only by a call that read a
\* successful receipt of its sponsored transaction and never went through
\* Stage C.
C19_ScanLogFireAndForget ==
    /\ [][\A i \in Calls :
            sc[i].scan = "posting" /\ sc'[i].scan # "posting" =>
                /\ sc'[i].scan \in {"ok", "failed"}
                /\ sc'[i] = [sc[i] EXCEPT !.scan = sc'[i].scan]]_vars
    /\ [](\A i \in Calls :
            sc[i].scan # "none" =>
                /\ Tx(i, "sponsored") \in sc[i].okReceipts
                /\ chain.txs[Tx(i, "sponsored")] = "success"
                /\ chain.txs[Tx(i, "direct")] = "none"
                /\ sc[i].directReceipt = "none"
                /\ sc[i].tx = Tx(i, "sponsored")
                /\ SettleReturned(i) /\ sq.ver = "V2" =>
                      sc[i].res = [kind |-> "return", success |-> TRUE,
                                   errorReason |-> "",
                                   transaction |-> Tx(i, "sponsored")])

\* a call returned success through Stage B and its POST failed
C19_Witness ==
    \E i \in Calls :
        /\ SettleReturned(i) /\ sc[i].res.success /\ sc[i].scan = "failed"
        /\ sc[i].res.transaction = Tx(i, "sponsored")


\* C25 as stated: when the deployment transaction of Stage A was sent and its
\* receipt is a failed one, settlement is aborted: the call submits no
\* transfer transaction on any path and does not return success.
C25_FailedDeployAborts ==
    \A i \in Calls :
        chain.txs[Tx(i, "deploy")] = "reverted" =>
            /\ chain.txs[Tx(i, "sponsored")] = "none"
            /\ chain.txs[Tx(i, "direct")] = "none"
            /\ SettleReturned(i) => ~sc[i].res.success


\* C26: the paymaster is contacted (sponsorship validate, sponsored submit)
\* only by settle calls whose requirement names chain 56; on any other chain
\* settle goes from the probe straight to the Stage C submission.
C26_PaymasterOnlyOnBsc ==
    /\ [](\A i \in Calls :
            \/ sc[i].pc \in {"validate", "execute", "waitSponsored"}
            \/ chain.txs[Tx(i, "sponsored")] # "none"
            \/ sc[i].scan # "none"
            => sq.r.network = "eip155:56")
    /\ [][\A i \in Calls :
            sc[i].pc = "probe" /\ sc'[i].pc # "probe" /\ sq.r.network # "eip155:56"
                => sc'[i].pc = "sendDirect"]_vars

\* a call on chain 8453 submitted its transfer through Stage C
C26_Witness ==
    \E i \in Calls :
        /\ sq.r.network = "eip155:8453"
        /\ chain.txs[Tx(i, "direct")] # "none"
        /\ SettleReturned(i) /\ sc[i].res.success


\* C27 as stated: a settle call for a payload that verify would reject (here:
\* its authorization was consumed before the call began, so the simulated
\* transfer reverts) broadcasts no transaction and returns a failure that
\* carries no transaction; for V2 and for V1.
C27_SettleRequiresVerify ==
    \A i \in Calls :
        sc[i].startedUsed =>
            /\ \A k \in TxKinds : chain.txs[Tx(i, k)] = "none"
            /\ SettleReturned(i) =>
                  /\ ~sc[i].res.success
                  /\ sc[i].res.transaction = NoTx


(***************************************************************************)
(* Properties of the middleware, checked under SpecMw                       *)
(***************************************************************************)
Logged(e) == \E k \in 1..Len(mw.log) : mw.log[k] = e
Count(e) == Cardinality({k \in 1..Len(mw.log) : mw.log[k] = e})
\* every e2 in the log has an e1 before it
Precedes(e1, e2) ==
    \A k \in 1..Len(mw.log) :
        mw.log[k] = e2 => \E j \in 1..(k - 1) : mw.log[j] = e1

\* the header decodes and names a scheme and network id "/weather" accepts
HeaderDecodes ==
    /\ mreq.payment.kind = "json" /\ mreq.payment.schemaOk
    /\ mreq.payment.namespace \in {"absent", "evm"}
HeaderMatches ==
    mreq.payment.scheme = "exact" /\ mreq.payment.networkId \in {"56", "8453"}
VerifiedValid == Logged("verifyReturn") /\ mw.verification.isValid

C5_NoResponseWithoutSettle ==
    /\ mreq.path = "/weather" /\ mw.pc = "done"
    /\ mw.res.body = "handler" /\ mw.res.status < 400
    => mw.settlement.kind = "return" /\ mw.settlement.success

\* C5 amended: after a valid verification whose type is not "transaction" and
\* a handler response with status < 400, the client receives the handler's
\* response with X-PAYMENT-RESPONSE when settle succeeds and a 402 in its
\* place when settle fails or throws. A verification of type "transaction"
\* is the one case where a response with status < 400 is delivered with no
\* settle call.
C5_SettleGatesResponse ==
    /\ mreq.path = "/weather" /\ mw.pc = "done" =>
        /\ Logged("handlerEnd") /\ mw.handlerStatus < 400
           /\ mw.verification.type # "transaction" =>
              IF mw.settlement.kind = "return" /\ mw.settlement.success
              THEN mw.res = [status |-> mw.handlerStatus, body |-> "handler",
                             error |-> "", paymentResponse |-> TRUE]
              ELSE /\ mw.settlement.kind \in {"return", "throw"}
                   /\ mw.res.status = 402 /\ mw.res.body # "handler"
        /\ mw.res.body = "handler" /\ mw.res.status < 400 =>
              \/ mw.settlement.kind = "return" /\ mw.settlement.success
              \/ mw.verification.type = "transaction" /\ ~Logged("settleCall")

\* settle returned success:false after the handler answered 200: the client
\* got a 402
C5_Witness ==
    /\ mreq.path = "/weather" /\ mw.pc = "done" /\ mw.handlerStatus = 200
    /\ mw.settlement = [kind |-> "return", success |-> FALSE]
    /\ mw.res.status = 402

\* C6: within one request verify completes before the handler starts, the
\* handler completes before settle starts, settle is invoked at most once,
\* and not at all when verify was invalid or the handler's status is >= 400.
C6_Sequential ==
    mreq.path = "/weather" =>
        /\ Precedes("verifyReturn", "handlerStart")
        /\ Precedes("verifyCall", "verifyReturn")
        /\ Precedes("handlerEnd", "settleCall")
        /\ Precedes("handlerStart", "handlerEnd")
        /\ Count("settleCall") <= 1
        /\ Logged("verifyReturn") /\ ~mw.verification.isValid => ~Logged("settleCall")
        /\ Logged("handlerEnd") /\ mw.handlerStatus >= 400 => ~Logged("settleCall")

\* a request that went through verify, the handler and settle
C6_Witness ==
    /\ mw.pc = "done"
    /\ mw.log = <<"verifyCall", "verifyReturn", "handlerStart", "handlerEnd",
                  "settleCall", "settleReturn">>


\* C24 as stated: a payload whose x402Version is not an accepted protocol
\* version is rejected by verify, a payload whose scheme is not "exact" is
\* rejected, and the version checked is the one the client sent.
C24_VersionAndSchemeGuards ==
    Logged("verifyCall") =>
        /\ mw.decodedVersion = mreq.payment.x402Version
        /\ Logged("verifyReturn") /\ mreq.payment.x402Version # 1 =>
              /\ ~mw.verification.isValid
              /\ mw.res.status = 402
        /\ Logged("verifyReturn") /\ mreq.payment.scheme # "exact" =>
              ~mw.verification.isValid


\* C28 (checked under SpecMwPaid): the requirement list the paid request is
\* matched against, and the accepts of any 402 it is answered with, equal
\* the accepts of the 402 that answered the first request to the same URL,
\* whatever the headers of the two requests: the entries of the route, each
\* with the route's resource (the configured one, else the request URL) and
\* the checksummed payTo.
C28_AcceptsEqualMatched ==
    mw.round = 2 =>
        /\ mw.requirements # <<>> =>
              /\ mw.requirements = mw.firstAccepts
              /\ Len(mw.requirements) = IF mreq.path = "/weather" THEN 2 ELSE 1
              /\ \A k \in 1..Len(mw.requirements) :
                    /\ mw.requirements[k].payToAddress =
                          [id |-> "0x2ec8a", form |-> "checksum"]
                    /\ mw.requirements[k].resource =
                          IF mreq.path = "/report" THEN <<"https://api/report">>
                          ELSE <<mreq.path, mreq.query>>
                    /\ mw.requirements[k].scheme = "exact"
              /\ mw.requirements[1].networkId = "56"
        /\ mw.accepts # <<>> => mw.accepts = mw.firstAccepts

\* the paid request to "/weather?city=1" was matched and sent to verify
C28_Witness ==
    /\ mw.round = 2 /\ Logged("verifyCall")
    /\ mreq.path = "/weather" /\ mreq.query = "?city=1"
    /\ mw.firstAccepts # <<>> /\ mw.requirements = mw.firstAccepts


\* C29 as stated: a verification failure is answered 402 with the
\* facilitator's invalidReason in the error field of the body, together with
\* accepts; a settlement failure is answered 402 with the settle error in
\* the error field; verify is called once.
C29_FailuresSurfaced ==
    mw.pc = "done" =>
        /\ Count("verifyCall") <= 1
        /\ Logged("verifyReturn") /\ ~mw.verification.isValid =>
              /\ mw.res.status = 402
              /\ mw.res.error = mw.verification.invalidReason
              /\ mw.accepts # <<>>
        /\ Logged("settleCall") /\ ~(mw.settlement.kind = "return" /\ mw.settlement.success) =>
              /\ mw.res.status = 402
              /\ mw.res.error \in {"facilitator error", "settlement.error"}


(***************************************************************************)
(* Properties of the submission, checked under SpecSubmit                   *)
(***************************************************************************)
Sponsored(p) == zs[p].path = "sponsored"

\* C14 as stated: the sponsored submit makes at most N sign-and-send attempts
\* in total, N being maxRetries (default 5).
C14_AtMostMaxRetriesAttempts ==
    \A p \in Submitters : Sponsored(p) => zs[p].sends <= 5

\* C14 amended: the sponsored submit makes at most maxRetries + 1 attempts
\* (6 by default: the first one and maxRetries retries), and when it gives up
\* on a nonce error it has made exactly maxRetries + 1 of them.
C14_AtMostMaxRetriesPlusOne ==
    \A p \in Submitters :
        Sponsored(p) =>
            /\ zs[p].sends <= 5 + 1
            /\ zs[p].pc = "threw" /\ zs[p].thrown \in {"tooLow", "tooHigh", "used", "otherNonce"}
                  => zs[p].sends = 5 + 1

\* every submission was answered with a nonce error until the loop gave up
C14_Witness ==
    \E p \in Submitters :
        /\ Sponsored(p) /\ zs[p].pc = "threw"
        /\ zs[p].thrown = "tooLow" /\ zs[p].sends = 6

\* C15 as stated: a further attempt is made only after a nonce error; what
\* the loop throws is the error of its last attempt; and it throws a nonce
\* error only when no attempt remains.
C15_RetryDiscipline ==
    \A p \in Submitters :
        Sponsored(p) =>
            /\ zs[p].pc \in {"fetch", "send"} /\ zs[p].attempt > 0
                  => zs[p].lastError \in {"tooLow", "tooHigh", "used", "otherNonce"}
            /\ zs[p].pc = "threw" =>
                  /\ zs[p].thrown = zs[p].lastError
                  /\ zs[p].lastError \in {"tooLow", "tooHigh", "used", "otherNonce"}
                        => zs[p].attempt = 5

\* C16: the nonce of every transaction the sponsored submit signs is the
\* answer of the pending transaction-count query made at the start of the
\* same attempt, whatever nonce validate recorded and put into txConfig and
\* whatever earlier attempts used.
C16_SignedNonceIsRefetched ==
    \A p \in Submitters :
        Sponsored(p) /\ zs[p].pc = "send" =>
            /\ zs[p].signedNonce = zs[p].latestNonce
            /\ zs[p].signedNonce <= zchain.count

\* a retry signs a nonce that differs from the one validate put into txConfig
C16_Witness ==
    \E p \in Submitters :
        /\ Sponsored(p) /\ zs[p].pc = "send" /\ zs[p].attempt > 0
        /\ zs[p].signedNonce # zs[p].txConfigNonce

\* C17 as stated: a submission rejected with a nonce error is retried with a
\* refetched nonce, not surfaced, while the rejections stay below the retry
\* budget; on the sponsored path and on the direct path.
C17_CollisionsAreRetried ==
    \A p \in Submitters :
        zs[p].pc = "threw" /\ zs[p].thrown \in {"tooLow", "tooHigh", "used", "otherNonce"}
            => zs[p].sends > 5


(***************************************************************************)
(* Properties of the EIP-3009 probe, checked under SpecProbe                *)
(***************************************************************************)
\* C20 as stated: for a fixed (chain, asset) every probe after the first
\* returns the first result, whatever readContract answers later, so the
\* needApprove flag encoded in settle equals the one encoded in verify of the
\* same payload.
C20_ProbeDeterministic ==
    \A k \in 1..Len(probes.log) :
        /\ probes.log[k].needApprove = probes.log[1].needApprove
        /\ probes.log[k].by = "settle" =>
              probes.log[k].needApprove = probes.log[k - 1].needApprove


(***************************************************************************)
(* Properties of getEvmChainId, checked under SpecChainId                   *)
(***************************************************************************)
\* C30 as stated: "eip155:56", "56" and "bsc" resolve to 56; "namespace:n"
\* with a positive number n resolves to n, a bare positive decimal string to
\* its value, a known network name to its id, and every other string to 1.
C30_ChainIdResolution ==
    pf.fn = "getEvmChainId" /\ pf.out.t # "unset" =>
        LET raw == pf.arg
            expected ==
                IF Len(raw) = 2 /\ raw[2] \in {"56", "8453"}
                THEN (IF raw[2] = "56" THEN 56 ELSE 8453)
                ELSE IF raw = <<"56">> THEN 56
                ELSE IF raw = <<"8453">> THEN 8453
                ELSE IF raw = <<"bsc">> THEN 56
                ELSE IF raw = <<"base">> THEN 8453
                ELSE 1 IN
        /\ raw \in {<<"eip155", "56">>, <<"56">>, <<"bsc">>} =>
              pf.out = [t |-> "number", v |-> 56]
        /\ pf.out = [t |-> "number", v |-> expected]


(***************************************************************************)
(* Properties of the client, checked under SpecClient                       *)
(***************************************************************************)
\* the client has seen the facilitator allowed to move the value it signs
ApprovalObserved ==
    \/ cl.approve = "success" /\ cl.approved = cl.auth.value
    \/ /\ cl.approve = "none"
       /\ cl.allowance.st = "ok"
       /\ cl.allowance.val >= cl.auth.value

\* C31: on the non-EIP-3009 path the approval precedes the signature: the
\* client is at the signing of tokenTransferWithAuthorization (needApprove =
\* true), or has signed it, only after it read an allowance >= value or after
\* its approve(facilitator, value) transaction got a receipt with status
\* success; when the approval receipt is not successful the call throws and
\* no signature and no payload is produced
ApprovalPrecedesSignature ==
    /\ (cl.signature = "needApprove" \/ (cl.pc = "sign" /\ cl.supports # "true"))
           => ApprovalObserved
    /\ cl.approve = "reverted" =>
           cl.pc = "done" /\ cl.res = "throw" /\ cl.signature = "none"
    /\ cl.res = "throw" => cl.signature = "none"
    /\ cl.res = "payload" => cl.signature # "none"

\* C31 witness: the signature was produced after a confirmed approval
SignedAfterApproval ==
    /\ cl.signature = "needApprove"
    /\ cl.approve = "success"
    /\ cl.allowance.val < cl.auth.value


(***************************************************************************)
(* Properties of the probe's reading of error messages, checked under       *)
(* SpecProbeMessage                                                         *)
(***************************************************************************)
\* the message of the probe's outcome holds one of the patterns, whatever
\* its letter case
HoldsOneOf(patterns) ==
    \E q \in pf.arg.message.phrases : SubstringsOf(q) \cap patterns # {}

HoldsAll(patterns) ==
    \A p \in patterns : \E q \in pf.arg.message.phrases : p \in SubstringsOf(q)

\* C32: the probe returns true exactly when the view call succeeds, or fails
\* with a message that holds a presence pattern and no absence pattern;
\* every other failure gives false
ProbeTrueExactlyOnPresence ==
    (pf.fn = "hasTransferWithAuthorization" /\ pf.out.t = "boolean") =>
        (pf.out.v = 1 <=>
            \/ ~pf.arg.threw
            \/ /\ HoldsOneOf({"authorization is expired", "authorization is used",
                              "authorization is not yet valid",
                              "invalid authorization", "invalid signature",
                              "invalid signature length"})
               /\ ~HoldsOneOf({"function does not exist", "method not found",
                               "unknown method", "function selector not found",
                               "no matching function", "invalid function selector",
                               "function not found"})
               /\ ~HoldsAll({"contract function", "not found"}))

\* C32 witness: a message with a presence and an absence pattern in upper
\* case was answered false
ProbeAmbiguousMessage ==
    /\ pf.fn = "hasTransferWithAuthorization" /\ pf.out.t = "boolean"
    /\ pf.arg.threw
    /\ pf.arg.message = [phrases |-> {"invalid signature", "unknown method"},
                         spelling |-> "upper"]
    /\ pf.out.v = 0


(***************************************************************************)
(* Further properties of settle, checked under SpecSettle                   *)
(***************************************************************************)
\* C33 as stated: one settle call broadcasts at most one transfer
\* transaction: once its sponsored Stage B transaction was accepted by
\* sendRawTransaction the call never sends the direct Stage C transaction,
\* also when waiting for the sponsored receipt throws or times out.
C33_OneTransferPerCall ==
    \A i \in Calls :
        chain.txs[Tx(i, "sponsored")] # "none" => chain.txs[Tx(i, "direct")] = "none"


\* C34 as stated: every settle call (V2 and V1) ends by returning a
\* SettleResult: as long as every chain, paymaster and scan call answers in
\* the end, each call ends, and no call ends by throwing to its caller, the
\* re-verification of V1 throwing included. Checked under SpecSettleFair.
C34_SettleAlwaysReturns ==
    /\ [](\A i \in Calls : sc[i].pc = "done" => sc[i].res.kind = "return")
    /\ <>(\A i \in Calls : sc[i].pc = "done")


(***************************************************************************)
(* Properties of a payment, checked under SpecPay                           *)
(***************************************************************************)
\* C35: the payload createPaymentPayload built at time t for requirement R
\* has to = checksum(R.payTo), value = R.amount (V1: R.maxAmountRequired),
\* validAfter = t - 600 and validBefore = t + R.maxTimeoutSeconds; at a verify
\* time t' >= t, verify does not reject it for its recipient, its validAfter
\* or its value, and when verify reaches its field checks it rejects it for
\* its validBefore exactly when t' + 6 > t + R.maxTimeoutSeconds
ClientPayloadPassesFieldChecks ==
    cl.pc = "submitted" =>
        /\ vq.p.to = [id |-> cl.r.payTo.id, form |-> "checksum"]
        /\ vq.p.value = cl.r.amount
        /\ vq.p.validAfter = cl.now - 600
        /\ vq.p.validBefore = cl.now + cl.r.maxTimeoutSeconds
        /\ clock >= cl.now
        /\ vres.kind = "return" =>
            /\ vres.invalidReason \notin
                 {"invalid_exact_evm_payload_recipient_mismatch",
                  "invalid_exact_evm_payload_authorization_valid_after",
                  "invalid_exact_evm_payload_authorization_value"}
            /\ venv.est = "ok" =>
                 (vres.invalidReason = "invalid_exact_evm_payload_authorization_valid_before"
                    <=> ~(clock + 6 <= cl.now + cl.r.maxTimeoutSeconds))

\* C35 witness: a payload verified one second after it was built, with
\* exactly the buffer left, was found valid
ClientPayloadVerifiedLater ==
    /\ cl.pc = "submitted"
    /\ clock = cl.now + 1
    /\ clock + 6 = vq.p.validBefore
    /\ vres.kind = "return" /\ vres.isValid


(***************************************************************************)
(* Properties of Stage A of settle, checked under SpecSettleDeploy          *)
(***************************************************************************)
TransferSent(i) ==
    chain.txs[Tx(i, "sponsored")] # "none" \/ chain.txs[Tx(i, "direct")] # "none"

\* C36: in settle the deployment transaction of the payer's smart wallet is
\* sent only when deployERC4337WithEIP6492 is set, the signature parses as
\* EIP-6492 with a nonzero factory address and calldata, and the payer was
\* read to have no code; once it is sent, no transfer transaction is
\* submitted before its receipt is there, and none at all when the sending or
\* the waiting throws.
C36_DeployOnlyWhenConfigured ==
    /\ [](\A i \in Calls :
            /\ (sc[i].pc \in {"deploySend", "deployWait"}
                   \/ chain.txs[Tx(i, "deploy")] # "none")
                 => sq.deploy /\ sq.p.sig = "erc6492"
            /\ (chain.txs[Tx(i, "deploy")] # "none" /\ TransferSent(i))
                 => chain.txs[Tx(i, "deploy")] \in {"success", "reverted"}
            /\ sc[i].pc \in {"deploySend", "deployWait"} => ~TransferSent(i))
    /\ [][\A i \in Calls :
            /\ (sc[i].pc = "stageA" /\ sc'[i].pc = "deploySend") => ~chain.deployed
            /\ (chain.txs[Tx(i, "deploy")] = "none" /\ chain'.txs[Tx(i, "deploy")] # "none")
                 => sc[i].pc = "deploySend" /\ sc'[i].pc = "deployWait"
            /\ (sc[i].pc = "deployWait" /\ sc'[i].pc = "probe")
                 => chain.txs[Tx(i, "deploy")] \in {"success", "reverted"}
            /\ (sc[i].pc \in {"deploySend", "deployWait"}
                   /\ sc'[i].pc \notin {"deploySend", "deployWait", "probe"})
                 => /\ sc'[i].pc = "done"
                    /\ sc'[i].res.kind = "return" /\ ~sc'[i].res.success
            /\ (sc[i].pc = "done" /\ ~TransferSent(i))
                 => (chain'.txs[Tx(i, "sponsored")] = "none"
                       /\ chain'.txs[Tx(i, "direct")] = "none")]_vars

\* C36 witness: a call deployed the wallet, saw the receipt, and then
\* submitted its transfer
C36_DeployedThenTransferred ==
    \E i \in Calls :
        /\ sq.deploy /\ sq.p.sig = "erc6492"
        /\ chain.txs[Tx(i, "deploy")] = "success"
        /\ Tx(i, "deploy") \in sc[i].okReceipts
        /\ TransferSent(i)


(***************************************************************************)
(* Properties of validateGaslessWithdraw2, checked under SpecValidate       *)
(***************************************************************************)
\* C37: validateGaslessWithdraw2 never throws; it returns isValid true, with
\* a txConfig whose gasPrice is 0 and whose from is the facilitator wallet,
\* exactly when the paymaster reported the transaction sponsorable, and
\* isValid false with an error message for every other outcome; whenever it
\* has returned isValid false the recorded pending nonce is null
ValidateNeverThrows ==
    /\ zv.res.kind # "throw"
    /\ zv.pc = "done" =>
        /\ zv.res.kind = "return"
        /\ zv.res.isValid <=> zv.sponsorable \in {"sponsorable", "Sponsorable"}
        /\ zv.res.isValid =>
              /\ zv.res.txConfig.present
              /\ zv.res.txConfig.gasPrice = 0
              /\ zv.res.txConfig.from = "wallet"
        /\ ~zv.res.isValid =>
              /\ zv.res.error
              /\ zv.pendingNonce.t = "null"

\* C37 witness: a tool whose first call was found sponsorable, and so
\* recorded a nonce, answered isValid false when the paymaster call of its
\* second call threw
ValidateFailedAfterNonce ==
    /\ zv.pc = "done" /\ zv.calls = 2
    /\ zv.funData.present /\ zv.funData.abi /\ zv.funData.functionName /\ zv.funData.args
    /\ zv.sponsorable = "none"
    /\ zv.nonce = 1
    /\ ~zv.res.isValid


(***************************************************************************)
(* Properties of the amount conversion, checked under SpecAmount            *)
(***************************************************************************)
\* C38 as stated: for every amountRequired and tokenDecimals the atomic
\* amount the client signs (parsePaymentRequirementsForAmount) is not less
\* than the amount V1 verify derives when maxAmountRequired is absent, so
\* verify's value check does not reject the client's payment.
C38_ClientAmountCoversRequired ==
    (pf.fn = "parsePaymentRequirementsForAmount" /\ pf.out.t = "number") =>
        /\ pf.out.v >= MaxAmountRequiredV1(pf.arg)
        /\ ~ValueTooLow("V1", [value |-> pf.out.v], pf.arg)


(***************************************************************************)
(* Properties of TokenSymbolUtil, checked under SpecToken                   *)
(***************************************************************************)
\* the lookup of step 3 made afresh over the mapping as it is now
UncachedLookup(tokenAddress) ==
    IF tokenAddress.norm \in {UsdtBsc, UsdcBase, Unlisted}
    THEN FirstMatch(tk.mapping, tokenAddress.norm, 1)
    ELSE ""

\* C39: the cache of TokenSymbolUtil is never stale: after any sequence of
\* getTokenSymbolByAddress, extendTokenMapping and clearCache calls,
\* getTokenSymbolByAddress(a) returns what an uncached lookup over the
\* current mapping returns: the symbol of the first chain, in the mapping's
\* iteration order, that has the trimmed lower-case address, "" if none has
\* it or the address does not start with 0x; and every cache entry equals
\* that lookup
TokenCacheNeverStale ==
    /\ tk.last.made => tk.last.out = UncachedLookup(tk.last.arg)
    /\ \A a \in {UsdtBsc, UsdcBase, Unlisted} :
          tk.cache[a].has => tk.cache[a].symbol = FirstMatch(tk.mapping, a, 1)
    /\ ~tk.cache[NoHex].has

\* C39 witness: an address that was cached, then added to the mapping, is
\* looked up again and the new symbol is returned
TokenLookupAfterExtend ==
    /\ tk.last.made
    /\ tk.last.arg = Str(Unlisted, "paddedUpper")
    /\ Unlisted \in tk.evicted
    /\ tk.last.out = "NEW"
====
